---- MODULE Spec2Model ----
(***************************************************************************)
(* Verification model of the c99js C-to-JavaScript translator.             *)
(*                                                                         *)
(* Sub-models, each with its own specification over the shared variables:  *)
(*   SpecPP    - the preprocessor main loop (src/src/preprocess.c)         *)
(***************************************************************************)
EXTENDS Integers, Sequences, FiniteSets, TLC

VARIABLES
    \* ---- PPState and the macro table (preprocess.c) ----
    pp_src,            \* pp.src: the file, a sequence of lexical units
    pp_p,              \* pp.p: index of the next unit (Len+1 = NUL)
    pp_line,           \* pp.line
    pp_out,            \* pp.out
    if_depth,          \* pp.if_depth
    skip_depth,        \* pp.skip_depth
    in_block_comment,  \* pp.in_block_comment
    macro_table,       \* macro_table: name -> body, object-like macros
    pp_done,           \* preprocess() has returned
    \* ---- diagnostics counters (util.c) ----
    error_count,
    warn_count,
    \* ---- SymTab (symtab.c) as driven by the parser (parser.c) ----
    sym_scopes,        \* every Scope allocated so far; index 1 is st->file_scope
    sym_current,       \* st->current, an index into sym_scopes
    sym_last,          \* the last symtab_lookup call and what it returned
    sym_decls,         \* declarators parsed so far
    \* ---- struct/union specifier being parsed (parser.c) ----
    lay_is_struct,     \* is_struct
    lay_head,          \* head.next: the Member list built so far
    lay_offset,        \* offset
    lay_max_align,     \* max_align
    lay_ty,            \* ty: [size, align, members, complete]
    lay_stack,         \* the enclosing specifiers whose member lists are open
    \* ---- CodeGen and codegen_generate (codegen.c) ----
    codegen,           \* the CodeGen struct and the static global_offset
    cg_prog,           \* program->body: the top-level nodes
    cg_pc,             \* where codegen_generate is
    cg_i,              \* the node the current loop is at
    cg_saved,          \* Buf saved: the main output while functions are generated
    \* ---- the emitted program running on the runtime ----
    rt_funcs,          \* the emitted functions: name -> operations
    rt_sp,             \* rt.mem.sp
    rt_stack,          \* the JavaScript call stack of emitted functions
    rt_started,        \* the entry has called _main
    rt_exit,           \* what _main returned to the entry
    rt_returns,        \* calls that have returned
    \* ---- the driver (main.c) ----
    main_env,          \* the file system: input readable, where the output goes
    main_pc,           \* the stage main() has reached
    main_status,       \* the value main() returned, once main_pc = "exit"
    main_reported,     \* the stages that reported an error
    main_codegen_called, \* codegen_generate was called
    main_written,      \* the JavaScript was written to the output
    \* ---- one call of a function of the compiler ----
    pf_in,             \* the arguments
    pf_out,            \* <<>> before the call, <<result>> after it
    \* ---- semantic analysis ----
    sema_stmt,         \* the statement of the function body, as a tree
    sema_pc,           \* "parsed", then "checked"
    \* ---- the arena (util.c) ----
    arena,             \* the Arena: blocks from head to current, current, default_block_size
    ar_regions,        \* the regions the calls have returned, in call order
    \* ---- the Lexer (lexer.c) reading the preprocessor's output ----
    lx_src,            \* l->src: the preprocessed text, a sequence of units
    lx_p,              \* l->p: index of the next unit
    lx_line,           \* l->line
    lx_filename,       \* l->filename
    lx_at_bol,         \* l->at_bol
    lx_toks,           \* the tokens returned so far, with their loc
    \* ---- the emitted script as it runs: top-level statements and memory writes ----
    rt_top,            \* the top-level statement of the emitted script that runs next
    rt_writes,         \* the writes to rt.mem so far: [addr, value, fn]
    \* ---- the Parser (parser.c) reading the Lexer's tokens ----
    ps_toks,           \* the kinds of the tokens the lexer returns before TK_EOF
    ps_pos,            \* index of l->cur, the current token
    ps_stack,          \* the calls of the parser in progress, as frames; the last is running
    ps_ret             \* what the last call returned: name found, type is TY_FUNC, node is ND_CAST

ppVars == <<pp_src, pp_p, pp_line, pp_out, if_depth, skip_depth,
            in_block_comment, macro_table, pp_done>>
diagVars == <<error_count, warn_count>>
symVars == <<sym_scopes, sym_current, sym_last, sym_decls>>
layVars == <<lay_is_struct, lay_head, lay_offset, lay_max_align, lay_ty,
             lay_stack>>
cgVars == <<codegen, cg_prog, cg_pc, cg_i, cg_saved>>
rtVars == <<rt_funcs, rt_sp, rt_stack, rt_started, rt_exit, rt_returns>>
mainVars == <<main_env, main_pc, main_status, main_reported,
              main_codegen_called, main_written>>
pfVars == <<pf_in, pf_out>>
semaVars == <<sema_stmt, sema_pc>>
arenaVars == <<arena, ar_regions>>
lexVars == <<lx_src, lx_p, lx_line, lx_filename, lx_at_bol, lx_toks>>
scriptVars == <<rt_top, rt_writes>>
parseVars == <<ps_toks, ps_pos, ps_stack, ps_ret>>
vars == <<ppVars, diagVars, symVars, layVars, cgVars, rtVars, mainVars, pfVars,
          semaVars,
          arenaVars,
          lexVars,
          scriptVars,
          parseVars>>
\* what the preprocessor never touches
ppOther == <<diagVars, symVars, layVars, cgVars, rtVars, mainVars, pfVars, semaVars,
             arenaVars,
             lexVars,
             scriptVars,
             parseVars>>
\* what the symbol table never touches
symOther == <<ppVars, warn_count, layVars, cgVars, rtVars, mainVars, pfVars, semaVars,
              arenaVars,
              lexVars,
              scriptVars,
              parseVars>>
\* what the struct layout never touches
layOther == <<ppVars, diagVars, symVars, cgVars, rtVars, mainVars, pfVars, semaVars,
              arenaVars,
              lexVars,
              scriptVars,
              parseVars>>
\* what the code generator never touches
cgOther == <<ppVars, diagVars, symVars, layVars, rtVars, mainVars, pfVars, semaVars,
             arenaVars,
             lexVars,
             scriptVars,
             parseVars>>
\* what the running program never touches
rtOther == <<ppVars, diagVars, symVars, layVars, cgVars, mainVars, pfVars, semaVars,
             arenaVars,
             lexVars,
             scriptVars,
             parseVars>>
\* what the driver itself never touches
mainOther == <<ppVars, symVars, layVars, cgVars, rtVars, pfVars, semaVars,
               arenaVars,
               lexVars,
               scriptVars,
               parseVars>>
\* what a single call never touches
pfOther == <<ppVars, diagVars, symVars, layVars, cgVars, rtVars, mainVars,
             semaVars,
             arenaVars,
             lexVars,
             scriptVars,
             parseVars>>
\* what semantic analysis never touches
semaOther == <<ppVars, symVars, layVars, cgVars, rtVars, mainVars, pfVars,
               arenaVars,
               lexVars,
               scriptVars,
               parseVars>>

(***************************************************************************)
(* Generic helpers                                                         *)
(***************************************************************************)
Min(a, b) == IF a < b THEN a ELSE b
Max(a, b) == IF a > b THEN a ELSE b

RECURSIVE Flatten(_)
Flatten(ss) == IF ss = <<>> THEN <<>> ELSE Head(ss) \o Flatten(Tail(ss))

(***************************************************************************)
(* Preprocessor: lexical units.                                            *)
(* The file is a sequence of units; each unit stands for a short run of    *)
(* characters that contains neither '#' nor a newline unless it is that    *)
(* character itself:                                                       *)
(*   "nl" newline, "ws" blank, "#" hash, "q" double quote, "co" and "cc"   *)
(*   comment open and close, "(" and ")", identifier units (keywords, the  *)
(*   macro name M, the numbers 0 and 1) and the text units t1..t6 (one     *)
(*   per line, ordinary non-identifier program text).                      *)
(* Macro expansion also meets "sq" single quote, "bs" backslash, ",",      *)
(* "..." and the names X, Y, F, V, a, b and __VA_ARGS__.                   *)
(***************************************************************************)
MaxLines == 4

Txt == <<"t1", "t2", "t3", "t4", "t5", "t6">>
TextUnits == {Txt[i] : i \in 1..Len(Txt)}
AlphaUnits == {"if", "ifdef", "ifndef", "elif", "else", "endif", "define",
               "undef", "pragma", "defined", "M", "X", "Y", "F", "V", "a", "b",
               "__VA_ARGS__"}
DigitUnits == {"0", "1", "2", "3"}
IdentUnits == AlphaUnits \cup DigitUnits

LineTemplates(i) ==
    { <<"#", "if", "ws", "1">>,
      <<"#", "if", "ws", "0">>,
      <<"#", "if", "ws", "defined", "ws", "M">>,
      <<"#", "ifdef", "ws", "M">>,
      <<"#", "ifndef", "ws", "M">>,
      <<"#", "elif", "ws", "1">>,
      <<"#", "elif", "ws", "0">>,
      <<"#", "else">>,
      <<"#", "endif">>,
      <<"ws", "#", "define", "ws", "M", "ws", "1">>,
      <<"#", "undef", "ws", "M">>,
      <<"#", "pragma">>,
      <<Txt[i]>>,
      <<Txt[i], "ws", "#", "endif">>,
      <<"q", "#", "else", "q">>,
      <<"co", "#", "endif", "cc">> }

\* every line of a file is terminated by a newline
RECURSIVE JoinLines(_)
JoinLines(ls) ==
    IF ls = <<>> THEN <<>> ELSE Head(ls) \o <<"nl">> \o JoinLines(Tail(ls))

RECURSIVE LineSeqs(_)
LineSeqs(n) ==
    IF n = 0 THEN {<<>>}
    ELSE LET prev == LineSeqs(n - 1)
         IN  prev \cup {Append(ls, l) : ls \in {x \in prev : Len(x) = n - 1},
                                          l \in LineTemplates(n)}

PPSources == {JoinLines(ls) : ls \in LineSeqs(MaxLines)}

(***************************************************************************)
(* Preprocessor: scanning helpers                                          *)
(***************************************************************************)
At(s, p) == IF p >= 1 /\ p <= Len(s) THEN s[p] ELSE "NUL"

\* pp_skip_whitespace_inline
pp_skip_whitespace_inline(s, p) ==
    CHOOSE q \in p..(Len(s) + 1) :
        /\ At(s, q) # "ws"
        /\ \A r \in p..(q - 1) : s[r] = "ws"

\* pp_skip_line
pp_skip_line(s, p) ==
    CHOOSE q \in p..(Len(s) + 1) :
        /\ At(s, q) \in {"nl", "NUL"}
        /\ \A r \in p..(q - 1) : s[r] # "nl"

\* pp_read_ident: the maximal run of identifier characters at p
pp_read_ident(s, p) ==
    LET q == CHOOSE e \in p..(Len(s) + 1) :
                 /\ At(s, e) \notin IdentUnits
                 /\ \A r \in p..(e - 1) : s[r] \in IdentUnits
    IN  [name |-> SubSeq(s, p, q - 1), p |-> q]

\* find_macro
find_macro(tab, name) == Len(name) = 1 /\ name[1] \in DOMAIN tab

\* a Macro; params is the list of the named parameters
Macro(body, is_func, params, is_variadic) ==
    [body |-> body, is_func |-> is_func, params |-> params,
     is_variadic |-> is_variadic]

\* define_macro: an existing entry of the name is replaced
define_macro(tab, n, body, is_func, params, is_variadic) ==
    (n :> Macro(body, is_func, params, is_variadic)) @@ tab

\* undef_macro
undef_macro(tab, n) == [m \in (DOMAIN tab) \ {n} |-> tab[m]]

RECURSIVE TrimTrailingWs(_)
TrimTrailingWs(b) ==
    IF b # <<>> /\ b[Len(b)] = "ws" THEN TrimTrailingWs(SubSeq(b, 1, Len(b) - 1))
    ELSE b

\* pp_read_line: the rest of the line, block comments replaced by a blank
RECURSIVE ReadLineFrom(_, _, _, _)
ReadLineFrom(s, p, body, lines) ==
    IF At(s, p) \in {"nl", "NUL"} THEN
        [body |-> TrimTrailingWs(body), p |-> p, lines |-> lines]
    ELSE IF s[p] = "co" THEN
        LET e == CHOOSE x \in (p + 1)..(Len(s) + 1) :
                     /\ At(s, x) \in {"cc", "NUL"}
                     /\ \A r \in (p + 1)..(x - 1) : s[r] # "cc"
            nls == Cardinality({r \in (p + 1)..(e - 1) : s[r] = "nl"})
        IN  ReadLineFrom(s, IF e <= Len(s) THEN e + 1 ELSE e,
                         IF body # <<>> THEN Append(body, "ws") ELSE body,
                         lines + nls)
    ELSE ReadLineFrom(s, p + 1, Append(body, s[p]), lines)

pp_read_line(s, p) == ReadLineFrom(s, pp_skip_whitespace_inline(s, p), <<>>, 0)

\* pp_replace_defined: defined X and defined(X) become 1 or 0.  The variant
\* before it leaves the expression as it is.
RECURSIVE pp_replace_defined(_, _)
pp_replace_defined_none(e, tab) == e
pp_replace_defined(e, tab) ==
    IF e = <<>> THEN <<>>
    ELSE IF e[1] = "defined" /\ At(e, 2) \notin IdentUnits THEN
        LET a == pp_skip_whitespace_inline(e, 2)
            paren == At(e, a) = "("
            b == pp_skip_whitespace_inline(e, IF paren THEN a + 1 ELSE a)
            id == pp_read_ident(e, b)
            c == IF paren THEN pp_skip_whitespace_inline(e, id.p) ELSE id.p
            d == IF paren /\ At(e, c) = ")" THEN c + 1 ELSE c
        IN  <<IF find_macro(tab, id.name) THEN "1" ELSE "0">>
                \o pp_replace_defined(SubSeq(e, d, Len(e)), tab)
    ELSE <<e[1]>> \o pp_replace_defined(Tail(e), tab)

\* the end of a string or character literal opened before p: the position
\* after the closing quote; a backslash takes the next unit with it
RECURSIVE PPLiteralEnd(_, _, _)
PPLiteralEnd(s, p, quote) ==
    IF p > Len(s) THEN p
    ELSE IF s[p] = quote THEN p + 1
    ELSE IF s[p] = "bs" /\ p < Len(s) THEN PPLiteralEnd(s, p + 2, quote)
    ELSE PPLiteralEnd(s, p + 1, quote)

\* the arguments of a function-like macro invocation, p after its '('
PP_MAX_ARGS == 64

RECURSIVE PPCollectArg(_, _, _, _)
PPCollectArg(s, p, pdepth, abuf) ==
    IF p > Len(s) \/ pdepth <= 0 THEN [abuf |-> abuf, p |-> p, pdepth |-> pdepth]
    ELSE IF s[p] = "(" THEN PPCollectArg(s, p + 1, pdepth + 1, Append(abuf, "("))
    ELSE IF s[p] = ")" THEN
        PPCollectArg(s, p + 1, pdepth - 1,
                     IF pdepth - 1 > 0 THEN Append(abuf, ")") ELSE abuf)
    ELSE IF s[p] = "," /\ pdepth = 1 THEN
        [abuf |-> abuf, p |-> p + 1, pdepth |-> pdepth]
    ELSE IF s[p] = "q" THEN
        LET e == PPLiteralEnd(s, p + 1, "q")
        IN PPCollectArg(s, e, pdepth, abuf \o SubSeq(s, p, e - 1))
    ELSE PPCollectArg(s, p + 1, pdepth, Append(abuf, s[p]))

RECURSIVE PPCollectArgs(_, _, _, _)
PPCollectArgs(s, p, pdepth, args) ==
    IF pdepth > 0 /\ p <= Len(s) /\ Len(args) < PP_MAX_ARGS
    THEN LET r == PPCollectArg(s, pp_skip_whitespace_inline(s, p), pdepth, <<>>)
         IN PPCollectArgs(s, r.p, r.pdepth, Append(args, r.abuf))
    ELSE [args |-> args, p |-> p]

\* the number of characters of an identifier unit
PPUnitLen(u) ==
    CASE u = "__VA_ARGS__" -> 11
      [] u = "defined" -> 7
      [] u \in {"ifndef", "define", "pragma"} -> 6
      [] u \in {"ifdef", "endif", "undef"} -> 5
      [] u \in {"elif", "else"} -> 4
      [] u = "if" -> 2
      [] OTHER -> 1
RECURSIVE PPIdentLen(_)
PPIdentLen(name) ==
    IF name = <<>> THEN 0 ELSE PPUnitLen(name[1]) + PPIdentLen(Tail(name))

\* the index of the parameter called name, 0 when there is none
PPParamIndex(params, name) ==
    LET ks == {k \in 1..Len(params) : <<params[k]>> = name}
    IN IF ks = {} THEN 0 ELSE CHOOSE k \in ks : \A j \in ks : k <= j

\* #param: the argument between quotes, '"' and '\' escaped
RECURSIVE PPStringify(_)
PPStringify(arg) ==
    IF arg = <<>> THEN <<>>
    ELSE (IF arg[1] \in {"q", "bs"} THEN <<"bs", arg[1]>> ELSE <<arg[1]>>)
             \o PPStringify(Tail(arg))

\* the body of a function-like macro with the arguments substituted
RECURSIVE PPSubstitute(_, _, _, _)
PPSubstitute(body, i, m, acc) ==
    LET args == acc.args
        tmp == acc.tmp
        nargs == Len(args)
    IN
    IF i > Len(body) THEN tmp
    ELSE IF body[i] \in AlphaUnits THEN
        LET id == pp_read_ident(body, i)
            pi == PPParamIndex(m.params, id.name)
            RECURSIVE Rest(_)
            Rest(k) == IF k > nargs THEN <<>>
                       ELSE (IF k > Len(m.params) + 1 THEN <<",">> ELSE <<>>)
                                \o args[k] \o Rest(k + 1)
        IN  IF PPIdentLen(id.name) = 12 /\ id.name[1] = "__VA_ARGS__"
            THEN PPSubstitute(body, id.p, m,
                              [acc EXCEPT !.tmp = tmp \o Rest(Len(m.params) + 1)])
            ELSE IF pi > 0
            THEN PPSubstitute(body, id.p, m,
                              [acc EXCEPT !.tmp = IF pi <= nargs
                                                   THEN tmp \o args[pi] ELSE tmp])
            ELSE PPSubstitute(body, id.p, m, [acc EXCEPT !.tmp = tmp \o id.name])
    ELSE IF body[i] = "#" /\ At(body, i + 1) = "#" THEN
        PPSubstitute(body, pp_skip_whitespace_inline(body, i + 2), m,
                     [acc EXCEPT !.tmp = TrimTrailingWs(tmp)])
    ELSE IF body[i] = "#" THEN
        LET id == pp_read_ident(body, pp_skip_whitespace_inline(body, i + 1))
            pi == PPParamIndex(m.params, id.name)
        IN  PPSubstitute(body, id.p, m,
                [acc EXCEPT !.tmp =
                    IF pi = 0 THEN tmp
                    ELSE tmp \o <<"q">>
                             \o (IF pi <= nargs THEN PPStringify(args[pi])
                                 ELSE <<>>)
                             \o <<"q">>])
    ELSE PPSubstitute(body, i + 1, m, [acc EXCEPT !.tmp = Append(tmp, body[i])])

\* expand_macros_r: string and character literals are copied; the body of
\* a macro is expanded one level deeper; beyond depth 32 the text is copied
PP_MAX_DEPTH == 32

\* the identifier at the head of the text is the name of a macro
PPHeadMacro(input, tab) ==
    /\ input[1] \in AlphaUnits
    /\ At(input, 2) \notin IdentUnits
    /\ find_macro(tab, <<input[1]>>)
\* the invocation of the function-like macro m at the head of the text:
\* the substituted body and the text after the closing parenthesis
PPInvocation(input, m) ==
    LET c == PPCollectArgs(input, 3, 1, <<>>)
    IN [expanded |-> PPSubstitute(m.body, 1, m, [args |-> c.args, tmp |-> <<>>]),
        rest |-> SubSeq(input, c.p, Len(input))]

RECURSIVE expand_macros_r(_, _, _)
expand_macros_r(input, depth, tab) ==
    IF depth > PP_MAX_DEPTH \/ input = <<>> THEN input
    ELSE IF input[1] \in {"q", "sq"} THEN
        SubSeq(input, 1, PPLiteralEnd(input, 2, input[1]) - 1)
            \o expand_macros_r(
                   SubSeq(input, PPLiteralEnd(input, 2, input[1]), Len(input)),
                   depth, tab)
    ELSE IF PPHeadMacro(input, tab) /\ ~tab[input[1]].is_func THEN
        expand_macros_r(tab[input[1]].body, depth + 1, tab)
            \o expand_macros_r(Tail(input), depth, tab)
    ELSE IF PPHeadMacro(input, tab) /\ At(input, 2) = "(" THEN
        expand_macros_r(PPInvocation(input, tab[input[1]]).expanded,
                        depth + 1, tab)
            \o expand_macros_r(PPInvocation(input, tab[input[1]]).rest,
                               depth, tab)
    ELSE IF input[1] \in AlphaUnits THEN
        pp_read_ident(input, 1).name
            \o expand_macros_r(SubSeq(input, pp_read_ident(input, 1).p,
                                      Len(input)), depth, tab)
    ELSE <<input[1]>> \o expand_macros_r(Tail(input), depth, tab)

expand_macros_from_one(input, tab) == expand_macros_r(input, 1, tab)
expand_macros(input, tab) == expand_macros_r(input, 0, tab)

\* C integer division and remainder (toward zero)
CDiv(a, b) ==
    LET q == (IF a < 0 THEN -a ELSE a) \div (IF b < 0 THEN -b ELSE b)
    IN IF (a < 0) = (b < 0) THEN q ELSE -q
CRem(a, b) == a - b * CDiv(a, b)
BoolInt(b) == IF b THEN 1 ELSE 0
NumVal(u) == CHOOSE v \in 0..3 : <<"0", "1", "2", "3">>[v + 1] = u

\* the binary operators of pp_eval_expr's loop, each one unit ("+" is
\* taken when the next unit is not "+", "-" when it is not "-")
PPBinOps == {"+", "-", "*", "/", "%", "<=", ">=", "<", ">", "==", "!=",
             "&&", "||"}
PPApply(op, l, r) ==
    CASE op = "+" -> l + r
      [] op = "-" -> l - r
      [] op = "*" -> l * r
      [] op = "/" -> IF r # 0 THEN CDiv(l, r) ELSE 0
      [] op = "%" -> IF r # 0 THEN CRem(l, r) ELSE 0
      [] op = "<=" -> BoolInt(l <= r)
      [] op = ">=" -> BoolInt(l >= r)
      [] op = "<" -> BoolInt(l < r)
      [] op = ">" -> BoolInt(l > r)
      [] op = "==" -> BoolInt(l = r)
      [] op = "!=" -> BoolInt(l # r)
      [] op = "&&" -> BoolInt(l # 0 /\ r # 0)
      [] op = "||" -> BoolInt(l # 0 \/ r # 0)

\* the position after the parenthesis that closes the one before p
RECURSIVE PPSkipToClose(_, _, _)
PPSkipToClose(e, p, depth) ==
    IF p > Len(e) \/ depth <= 0 THEN p
    ELSE PPSkipToClose(e, p + 1,
                       IF e[p] = "(" THEN depth + 1
                       ELSE IF e[p] = ")" THEN depth - 1 ELSE depth)

\* pp_eval_primary reads one operand at p: its value and the position after
\* it (the alphabet has no character literals, shifts or bitwise operators).  pp_eval_expr folds the operators from left to right, each with the
\* next primary as right operand.
RECURSIVE pp_eval_primary(_, _, _)
RECURSIVE pp_eval_expr(_, _)
pp_eval_primary(e, p0, tab) ==
    LET a == pp_skip_whitespace_inline(e, p0)
        c == At(e, a)
    IN  IF c = "(" THEN
            [val |-> pp_eval_expr(SubSeq(e, a + 1, Len(e)), tab),
             p |-> PPSkipToClose(e, a + 1, 1)]
        ELSE IF c = "!" THEN
            LET r == pp_eval_primary(e, a + 1, tab)
            IN [val |-> BoolInt(r.val = 0), p |-> r.p]
        ELSE IF c = "-" THEN
            LET r == pp_eval_primary(e, a + 1, tab)
            IN [val |-> -r.val, p |-> r.p]
        ELSE IF c = "+" THEN pp_eval_primary(e, a + 1, tab)
        ELSE IF c = "defined" /\ At(e, a + 1) \notin IdentUnits THEN
            LET b == pp_skip_whitespace_inline(e, a + 1)
                paren == At(e, b) = "("
                d == pp_skip_whitespace_inline(e, IF paren THEN b + 1 ELSE b)
                id == pp_read_ident(e, d)
                f == IF paren THEN pp_skip_whitespace_inline(e, id.p) ELSE id.p
                g == IF paren /\ At(e, f) = ")" THEN f + 1 ELSE f
            IN [val |-> BoolInt(find_macro(tab, id.name)), p |-> g]
        ELSE IF c \in DigitUnits THEN [val |-> NumVal(c), p |-> a + 1]
        ELSE IF c \in AlphaUnits THEN [val |-> 0, p |-> pp_read_ident(e, a).p]
        ELSE [val |-> 0, p |-> a]
pp_eval_expr(e, tab) ==
    LET RECURSIVE Loop(_, _)
        Loop(lhs, p0) ==
            LET p == pp_skip_whitespace_inline(e, p0)
                c == At(e, p)
            IN  IF c \in PPBinOps
                     /\ ~(c \in {"+", "-"} /\ At(e, p + 1) = c)
                THEN LET r == pp_eval_primary(e, p + 1, tab)
                     IN Loop(PPApply(c, lhs, r.val), r.p)
                ELSE lhs
        first == pp_eval_primary(e, 1, tab)
    IN Loop(first.val, first.p)

\* #if / #elif: read the line, replace defined, expand, evaluate
PPCondition(s, p, tab) ==
    LET rl == pp_read_line(s, p)
    IN  [val |-> pp_eval_expr(expand_macros(pp_replace_defined(rl.body, tab), tab),
                             tab),
         p |-> rl.p, lines |-> rl.lines]

\* the text line loop of preprocess(): reads a logical line, joining the
\* next physical line while a parenthesis or a block comment is open
RECURSIVE ScanLine(_, _, _, _, _, _, _, _)
ScanLine(s, p, ibc, instr, inchr, pd, buf, lines) ==
    IF p > Len(s) THEN [p |-> p, ibc |-> ibc, buf |-> buf, lines |-> lines]
    ELSE IF s[p] = "nl" THEN
        IF pd <= 0 /\ ~ibc
        THEN [p |-> p, ibc |-> ibc, buf |-> buf, lines |-> lines]
        ELSE ScanLine(s, p + 1, ibc, instr, inchr, pd, Append(buf, "ws"),
                      lines + 1)
    ELSE IF s[p] = "bs" /\ At(s, p + 1) = "nl" THEN
        \* line continuation
        ScanLine(s, p + 2, ibc, instr, inchr, pd, buf, lines + 1)
    ELSE IF ibc THEN
        ScanLine(s, p + 1, s[p] # "cc", instr, inchr, pd, Append(buf, s[p]),
                 lines)
    ELSE IF ~instr /\ ~inchr THEN
        IF s[p] = "co" THEN
            ScanLine(s, p + 1, TRUE, instr, inchr, pd, Append(buf, s[p]), lines)
        ELSE IF s[p] = "q" THEN
            ScanLine(s, p + 1, ibc, TRUE, inchr, pd, Append(buf, s[p]), lines)
        ELSE IF s[p] = "sq" THEN
            ScanLine(s, p + 1, ibc, instr, TRUE, pd, Append(buf, s[p]), lines)
        ELSE IF s[p] = "(" THEN
            ScanLine(s, p + 1, ibc, instr, inchr, pd + 1, Append(buf, s[p]),
                     lines)
        ELSE IF s[p] = ")" THEN
            ScanLine(s, p + 1, ibc, instr, inchr, IF pd > 0 THEN pd - 1 ELSE pd,
                     Append(buf, s[p]), lines)
        ELSE ScanLine(s, p + 1, ibc, instr, inchr, pd, Append(buf, s[p]), lines)
    ELSE IF s[p] = "bs" /\ p < Len(s) THEN
        \* an escape inside a literal takes the next unit with it
        ScanLine(s, p + 2, ibc, instr, inchr, pd, buf \o <<s[p], s[p + 1]>>,
                 lines)
    ELSE IF instr THEN
        ScanLine(s, p + 1, ibc, s[p] # "q", inchr, pd, Append(buf, s[p]), lines)
    ELSE ScanLine(s, p + 1, ibc, instr, s[p] # "sq", pd, Append(buf, s[p]),
                  lines)

\* the parameter list of #define NAME( ... ), p after the '(': the names,
\* whether "..." ended it, the position after the ')' and whether the loop
\* of the handler stops at all (it does not advance over a unit that is
\* neither a name, a comma nor the closing parenthesis)
RECURSIVE PPParamsFrom(_, _, _)
PPParamsFrom(s, p, params) ==
    IF At(s, p) \in {"NUL", ")"}
    THEN [params |-> params, is_variadic |-> FALSE, p |-> p, stops |-> TRUE]
    ELSE LET a == pp_skip_whitespace_inline(s, p)
             id == pp_read_ident(s, a)
             b == pp_skip_whitespace_inline(s, id.p)
             c == IF At(s, b) = "," THEN b + 1 ELSE b
         IN  IF At(s, a) = "..."
             THEN [params |-> params, is_variadic |-> TRUE, p |-> a + 1,
                   stops |-> TRUE]
             ELSE IF c = p
             THEN [params |-> params, is_variadic |-> FALSE, p |-> p,
                   stops |-> FALSE]
             ELSE PPParamsFrom(s, c,
                               IF id.name = <<>> THEN params
                               ELSE Append(params,
                                           IF Len(id.name) = 1 THEN id.name[1]
                                           ELSE "unknown"))
PPParams(s, p) ==
    IF At(s, p) = "("
    THEN LET r == PPParamsFrom(s, pp_skip_whitespace_inline(s, p + 1), <<>>)
         IN [r EXCEPT !.p = IF At(s, r.p) = ")" THEN r.p + 1 ELSE r.p]
             @@ [is_func |-> TRUE]
    ELSE [params |-> <<>>, is_variadic |-> FALSE, p |-> p, stops |-> TRUE,
          is_func |-> FALSE]

(***************************************************************************)
(* Preprocessor: one action per branch of the main loop of preprocess()    *)
(***************************************************************************)
PPRunning == ~pp_done /\ pp_p <= Len(pp_src)

\* position of the first non-blank unit of this iteration
PPHashPos == pp_skip_whitespace_inline(pp_src, pp_p)
PPAtHash == PPRunning /\ At(pp_src, PPHashPos) = "#"

\* the directive name read after '#': "" when there is no identifier
PPDir ==
    LET id == pp_read_ident(pp_src, pp_skip_whitespace_inline(pp_src, PPHashPos + 1))
    IN  [name |-> IF id.name = <<>> THEN ""
                  ELSE IF Len(id.name) = 1 THEN id.name[1] ELSE "unknown",
         p |-> id.p]

PPKeep == UNCHANGED <<pp_src, pp_out, in_block_comment, pp_done, ppOther>>

PP_If ==
    /\ PPAtHash /\ PPDir.name = "if"
    /\ if_depth' = if_depth + 1
    /\ IF skip_depth > 0
       THEN /\ skip_depth' = skip_depth + 1
            /\ pp_p' = pp_skip_line(pp_src, PPDir.p)
            /\ pp_line' = pp_line
       ELSE LET c == PPCondition(pp_src, PPDir.p, macro_table)
            IN  /\ skip_depth' = IF c.val = 0 THEN 1 ELSE skip_depth
                /\ pp_p' = c.p
                /\ pp_line' = pp_line + c.lines
    /\ UNCHANGED macro_table
    /\ PPKeep

PP_Ifdef ==
    /\ PPAtHash /\ PPDir.name = "ifdef"
    /\ LET id == pp_read_ident(pp_src, pp_skip_whitespace_inline(pp_src, PPDir.p))
       IN  /\ pp_p' = pp_skip_line(pp_src, id.p)
           /\ skip_depth' = IF skip_depth > 0 THEN skip_depth + 1
                            ELSE IF id.name = <<>> \/ ~find_macro(macro_table, id.name)
                                 THEN 1 ELSE skip_depth
    /\ if_depth' = if_depth + 1
    /\ UNCHANGED <<macro_table, pp_line>>
    /\ PPKeep

PP_Ifndef ==
    /\ PPAtHash /\ PPDir.name = "ifndef"
    /\ LET id == pp_read_ident(pp_src, pp_skip_whitespace_inline(pp_src, PPDir.p))
       IN  /\ pp_p' = pp_skip_line(pp_src, id.p)
           /\ skip_depth' = IF skip_depth > 0 THEN skip_depth + 1
                            ELSE IF id.name # <<>> /\ find_macro(macro_table, id.name)
                                 THEN 1 ELSE skip_depth
    /\ if_depth' = if_depth + 1
    /\ UNCHANGED <<macro_table, pp_line>>
    /\ PPKeep

PP_Elif ==
    /\ PPAtHash /\ PPDir.name = "elif"
    /\ IF skip_depth = 1
       THEN LET c == PPCondition(pp_src, PPDir.p, macro_table)
            IN  /\ skip_depth' = IF c.val # 0 THEN 0 ELSE skip_depth
                /\ pp_p' = c.p
                /\ pp_line' = pp_line + c.lines
       ELSE /\ skip_depth' = IF skip_depth = 0 THEN 1 ELSE skip_depth
            /\ pp_p' = pp_skip_line(pp_src, PPDir.p)
            /\ pp_line' = pp_line
    /\ UNCHANGED <<macro_table, if_depth>>
    /\ PPKeep

PP_Else ==
    /\ PPAtHash /\ PPDir.name = "else"
    /\ pp_p' = pp_skip_line(pp_src, PPDir.p)
    /\ skip_depth' = IF skip_depth = 1 THEN 0
                     ELSE IF skip_depth = 0 THEN 1 ELSE skip_depth
    /\ UNCHANGED <<macro_table, if_depth, pp_line>>
    /\ PPKeep

PP_Endif ==
    /\ PPAtHash /\ PPDir.name = "endif"
    /\ pp_p' = pp_skip_line(pp_src, PPDir.p)
    /\ skip_depth' = IF skip_depth > 0 THEN skip_depth - 1 ELSE skip_depth
    /\ if_depth' = if_depth - 1
    /\ UNCHANGED <<macro_table, pp_line>>
    /\ PPKeep

PPCondDirs == {"if", "ifdef", "ifndef", "elif", "else", "endif"}

\* any other directive inside a skipped group
PP_SkippedDirective ==
    /\ PPAtHash /\ PPDir.name \notin PPCondDirs /\ PPDir.name # ""
    /\ skip_depth > 0
    /\ pp_p' = pp_skip_line(pp_src, PPDir.p)
    /\ UNCHANGED <<macro_table, if_depth, skip_depth, pp_line>>
    /\ PPKeep

PP_Define ==
    /\ PPAtHash /\ PPDir.name = "define" /\ skip_depth = 0
    /\ LET id == pp_read_ident(pp_src, pp_skip_whitespace_inline(pp_src, PPDir.p))
       IN  IF id.name = <<>>
           THEN /\ pp_p' = pp_skip_line(pp_src, id.p)
                /\ UNCHANGED <<macro_table, pp_line>>
           ELSE LET ps == PPParams(pp_src, id.p)
                    rl == pp_read_line(pp_src, ps.p)
                    n == IF Len(id.name) = 1 THEN id.name[1] ELSE "unknown"
                IN  /\ ps.stops
                    /\ macro_table' = define_macro(macro_table, n, rl.body,
                                                   ps.is_func, ps.params,
                                                   ps.is_variadic)
                    /\ pp_p' = rl.p
                    /\ pp_line' = pp_line + rl.lines
    /\ UNCHANGED <<if_depth, skip_depth>>
    /\ PPKeep

PP_Undef ==
    /\ PPAtHash /\ PPDir.name = "undef" /\ skip_depth = 0
    /\ LET id == pp_read_ident(pp_src, pp_skip_whitespace_inline(pp_src, PPDir.p))
       IN  /\ macro_table' = IF Len(id.name) = 1
                             THEN undef_macro(macro_table, id.name[1])
                             ELSE macro_table
           /\ pp_p' = pp_skip_line(pp_src, id.p)
    /\ UNCHANGED <<if_depth, skip_depth, pp_line>>
    /\ PPKeep

\* '#' without a name, #pragma and unknown directives: the line is dropped
PP_OtherDirective ==
    /\ PPAtHash
    /\ \/ PPDir.name = ""
       \/ /\ skip_depth = 0
          /\ PPDir.name \notin PPCondDirs \cup {"define", "undef"}
    /\ pp_p' = pp_skip_line(pp_src, PPDir.p)
    /\ UNCHANGED <<macro_table, if_depth, skip_depth, pp_line>>
    /\ PPKeep

\* skipping: a newline is copied, any other character is dropped
PP_SkipChar ==
    /\ PPRunning /\ ~PPAtHash /\ skip_depth > 0
    /\ pp_p' = pp_p + 1
    /\ IF pp_src[pp_p] = "nl"
       THEN pp_out' = Append(pp_out, "nl") /\ pp_line' = pp_line + 1
       ELSE UNCHANGED <<pp_out, pp_line>>
    /\ UNCHANGED <<pp_src, if_depth, skip_depth, in_block_comment, macro_table,
                   pp_done, ppOther>>

PP_Newline ==
    /\ PPRunning /\ ~PPAtHash /\ skip_depth = 0 /\ pp_src[pp_p] = "nl"
    /\ pp_p' = pp_p + 1
    /\ pp_out' = Append(pp_out, "nl")
    /\ pp_line' = pp_line + 1
    /\ UNCHANGED <<pp_src, if_depth, skip_depth, in_block_comment, macro_table,
                   pp_done, ppOther>>

\* regular line: read the logical line, expand macros, append to the output
PP_Line ==
    /\ PPRunning /\ ~PPAtHash /\ skip_depth = 0 /\ pp_src[pp_p] # "nl"
    /\ LET r == ScanLine(pp_src, pp_p, in_block_comment, FALSE, FALSE, 0, <<>>, 0)
       IN  /\ pp_p' = r.p
           /\ in_block_comment' = r.ibc
           /\ pp_line' = pp_line + r.lines
           /\ pp_out' = pp_out \o expand_macros(r.buf, macro_table)
    /\ UNCHANGED <<pp_src, if_depth, skip_depth, macro_table, pp_done, ppOther>>

PP_Return ==
    /\ ~pp_done /\ pp_p > Len(pp_src)
    /\ pp_done' = TRUE
    /\ UNCHANGED <<pp_src, pp_p, pp_line, pp_out, if_depth, skip_depth,
                   in_block_comment, macro_table, ppOther>>

\* pp_init; the predefined macros have names outside this alphabet

(***************************************************************************)
(* Conditional groups as C99 6.10.1 defines them, computed line by line    *)
(* from the file alone: the yardstick for the preprocessor's output.       *)
(***************************************************************************)
RECURSIVE SplitLines(_, _)
SplitLines(s, cur) ==
    IF s = <<>> THEN (IF cur = <<>> THEN <<>> ELSE <<cur>>)
    ELSE IF s[1] = "nl" THEN <<cur>> \o SplitLines(Tail(s), <<>>)
    ELSE SplitLines(Tail(s), Append(cur, s[1]))

RefLines(s) == SplitLines(s, <<>>)

RefStrip(l) == SubSeq(l, pp_skip_whitespace_inline(l, 1), Len(l))

RefIsDirective(l) == At(RefStrip(l), 1) = "#"
RefDirName(l) == At(RefStrip(l), 2)
RefArg(l) == LET b == RefStrip(l) IN SubSeq(b, 4, Len(b))

\* a '#' that is not the first non-blank character of its line
RefHasStrayHash(l) ==
    \E k \in 1..Len(l) : l[k] = "#" /\ \E r \in 1..(k - 1) : l[r] # "ws"

RefCond(l, defs) ==
    CASE RefDirName(l) = "ifdef" -> At(RefArg(l), 1) \in defs
      [] RefDirName(l) = "ifndef" -> At(RefArg(l), 1) \notin defs
      [] OTHER -> \/ RefArg(l) = <<"1">>
                  \/ RefArg(l) = <<"defined", "ws", "M">> /\ "M" \in defs

RefTopActive(st) == st.stack = <<>> \/ st.stack[Len(st.stack)].active

RefStepLine(st, l) ==
    LET n == Len(st.stack)
        top == st.stack[n]
        d == RefDirName(l)
    IN  IF ~RefIsDirective(l) THEN st
        ELSE IF d \in {"if", "ifdef", "ifndef"} THEN
            LET on == RefTopActive(st) /\ RefCond(l, st.defs)
            IN  [st EXCEPT !.stack = Append(@, [parent |-> RefTopActive(st),
                                                taken |-> on, active |-> on,
                                                else_seen |-> FALSE])]
        ELSE IF d \in {"elif", "else", "endif"} /\ n = 0 THEN
            [st EXCEPT !.ok = FALSE]
        ELSE IF d = "elif" THEN
            LET on == top.parent /\ ~top.taken /\ RefCond(l, st.defs)
            IN  [st EXCEPT !.stack[n].active = on,
                           !.stack[n].taken = top.taken \/ on,
                           !.ok = st.ok /\ ~top.else_seen]
        ELSE IF d = "else" THEN
            [st EXCEPT !.stack[n].active = top.parent /\ ~top.taken,
                       !.stack[n].taken = TRUE,
                       !.stack[n].else_seen = TRUE,
                       !.ok = st.ok /\ ~top.else_seen]
        ELSE IF d = "endif" THEN
            [st EXCEPT !.stack = SubSeq(@, 1, n - 1)]
        ELSE IF d = "define" /\ RefTopActive(st) THEN
            [st EXCEPT !.defs = @ \cup {At(RefArg(l), 1)}]
        ELSE IF d = "undef" /\ RefTopActive(st) THEN
            [st EXCEPT !.defs = @ \ {At(RefArg(l), 1)}]
        ELSE st

RECURSIVE RefRun(_, _)
RefRun(ls, n) ==
    IF n = 0 THEN [stack |-> <<>>, defs |-> {}, ok |-> TRUE]
    ELSE RefStepLine(RefRun(ls, n - 1), ls[n])

\* the file has no stray '#' and no #elif, #else or #endif outside a group
RefClean(s) ==
    LET ls == RefLines(s)
    IN  /\ \A i \in 1..Len(ls) : ~RefHasStrayHash(ls[i])
        /\ RefRun(ls, Len(ls)).ok

\* line i is in the branch of every enclosing group that C selects
RefLineActive(s, i) == RefTopActive(RefRun(RefLines(s), i - 1))

TextLineNo(u) == CHOOSE i \in 1..Len(Txt) : Txt[i] = u

\* C1: in a file whose directives all start their line, a text line is
\* output only if it lies in the selected branch of every group around it
\* (the first branch whose condition is true, else the #else branch), so
\* after one branch of a group was output all its later branches are
\* discarded; and when preprocessing is done every selected line is output.
C1_OneBranchPerGroup ==
    RefClean(pp_src) =>
        /\ \A k \in 1..Len(pp_out) :
               pp_out[k] \in TextUnits => RefLineActive(pp_src, TextLineNo(pp_out[k]))
        /\ pp_done =>
               \A i \in 1..Len(RefLines(pp_src)) :
                   (RefLines(pp_src)[i] = <<Txt[i]>> /\ RefLineActive(pp_src, i))
                       => \E k \in 1..Len(pp_out) : pp_out[k] = Txt[i]

\* first unit of the physical line that holds position q
PPLineStart(s, q) ==
    CHOOSE b \in 1..q : (b = 1 \/ s[b - 1] = "nl") /\ \A r \in b..(q - 1) : s[r] # "nl"

\* the main loop is about to read a '#' that follows other text on its line
PPAtStrayHash ==
    /\ PPAtHash
    /\ \E r \in PPLineStart(pp_src, PPHashPos)..(PPHashPos - 1) : pp_src[r] # "ws"

\* C2: a '#' that is not the first non-blank character of its line is not
\* a directive: the step that reads it leaves if_depth, skip_depth and the
\* macro table as they were, in active and in discarded text.
C2_StrayHashIsText ==
    [][PPAtStrayHash => UNCHANGED <<if_depth, skip_depth, macro_table>>]_vars

\* nesting of the conditional directives of lines 1..n: the number of open
\* groups, and whether an #elif, #else or #endif came with no group open
RECURSIVE RefNesting(_, _)
RefNesting(ls, n) ==
    IF n = 0 THEN [open |-> 0, orphan |-> FALSE]
    ELSE LET st == RefNesting(ls, n - 1)
             d == RefDirName(ls[n])
         IN  IF ~RefIsDirective(ls[n]) THEN st
             ELSE IF d \in {"if", "ifdef", "ifndef"}
             THEN [st EXCEPT !.open = @ + 1]
             ELSE IF d \in {"elif", "else", "endif"} /\ st.open = 0
             THEN [st EXCEPT !.orphan = TRUE]
             ELSE IF d = "endif" THEN [st EXCEPT !.open = @ - 1]
             ELSE st
RefMismatched(s) ==
    LET st == RefNesting(RefLines(s), Len(RefLines(s)))
    IN st.open > 0 \/ st.orphan

\* C20: when the file ends with a group still open, or has an #endif, #else
\* or #elif with no group open, the preprocessor has increased error_count
\* by the time it returns.
C20_MismatchReported ==
    (pp_done /\ pp_src # <<>> /\ RefMismatched(pp_src)) => error_count > 0

(***************************************************************************)
(* One #if directive on its own: the expression after "#if " and the macro *)
(* table it meets are pf_in; the action runs the handler's pipeline        *)
(* (pp_replace_defined, expand_macros, pp_eval_expr) and records the value *)
(* and the skip_depth the directive leaves.                                *)
(***************************************************************************)
MaxOperands == 3

PPNumbers == {"0", "1", "2"}
PPExprOps == {"+", "-", "*", "<", "==", "&&", "||"}

\* n1 op n2 op ... with k operands
RECURSIVE PPChains(_)
PPChains(k) ==
    IF k = 1 THEN {<<n>> : n \in PPNumbers}
    ELSE {c \o <<op, n>> : c \in PPChains(k - 1), op \in PPExprOps,
                           n \in PPNumbers}
\* the chains, and with three operands or more also  (a op b) op ...  and
\* a op (b op ...); with two operands  !a op b,  -a op b  and blanks
PPExprs ==
    LET All == UNION {PPChains(k) : k \in 1..MaxOperands}
        Long == {c \in All : Len(c) >= 5}
        Two == {c \in All : Len(c) = 3}
    IN  All
          \cup {<<"(">> \o SubSeq(c, 1, 3) \o <<")">> \o SubSeq(c, 4, Len(c)) :
                    c \in Long}
          \cup {SubSeq(c, 1, 2) \o <<"(">> \o SubSeq(c, 3, Len(c)) \o <<")">> :
                    c \in Long}
          \cup {<<u>> \o c : u \in {"!", "-"}, c \in Two}
          \cup {<<c[1], "ws", c[2], "ws", c[3]>> : c \in Two}

\* defined X, defined(X), defined ( X )
PPDefinedForms(n) ==
    {<<"defined", "ws", n>>, <<"defined", "(", n, ")">>,
     <<"defined", "ws", "(", "ws", n, "ws", ")">>}
PPDefinedExprs ==
    LET D == UNION {PPDefinedForms(n) : n \in {"X", "Y"}}
    IN  D \cup {<<"!">> \o d : d \in D}
          \cup {d1 \o <<"ws", "&&", "ws">> \o d2 : d1 \in D, d2 \in D}
\* the tables: X and Y each undefined, or object-like with an empty body, a
\* number or a name as body
PPCondTables ==
    LET Bodies == {<<>>, <<"0">>, <<"1">>, <<"X">>, <<"Y">>}
        With(tab, n) == {tab} \cup {define_macro(tab, n, b, FALSE, <<>>, FALSE) :
                                        b \in Bodies}
    IN UNION {With(t, "Y") : t \in With(<<>>, "X")}

PPCondInput(expr, tab) == [expr |-> expr, tab |-> tab]

PP_EvalIf ==
    /\ pf_out = <<>>
    /\ LET tab == pf_in.tab
           val == pp_eval_expr(
                      expand_macros(pp_replace_defined(pf_in.expr, tab), tab),
                      tab)
       IN pf_out' = <<[val |-> val, skip_depth |-> IF val = 0 THEN 1 ELSE 0]>>
    /\ UNCHANGED <<pf_in, pfOther>>

\* the main parser's binary operators (parser.c): higher binds tighter,
\* equal precedence associates to the left
get_precedence(k) ==
    CASE k \in {"*", "/", "%"} -> 13
      [] k \in {"+", "-"} -> 12
      [] k \in {"<", "<=", ">", ">="} -> 10
      [] k \in {"==", "!="} -> 9
      [] k = "&&" -> 5
      [] k = "||" -> 4
      [] OTHER -> -1

\* the value of the expression parsed as parse_unary_expr and
\* parse_binary_expr parse it
RECURSIVE RefUnaryValue(_, _)
RECURSIVE RefBinaryValue(_, _, _)
RefUnaryValue(e, p0) ==
    LET p == pp_skip_whitespace_inline(e, p0)
        c == At(e, p)
    IN  IF c = "(" THEN
            LET r == RefBinaryValue(e, p + 1, 4)
            IN [val |-> r.val, p |-> pp_skip_whitespace_inline(e, r.p) + 1]
        ELSE IF c = "!" THEN
            LET r == RefUnaryValue(e, p + 1)
            IN [val |-> BoolInt(r.val = 0), p |-> r.p]
        ELSE IF c = "-" THEN
            LET r == RefUnaryValue(e, p + 1)
            IN [val |-> -r.val, p |-> r.p]
        ELSE [val |-> NumVal(c), p |-> p + 1]
RefBinaryValue(e, p0, min_prec) ==
    LET RECURSIVE Loop(_, _)
        Loop(lhs, q0) ==
            LET q == pp_skip_whitespace_inline(e, q0)
                prec == get_precedence(At(e, q))
            IN  IF prec < min_prec THEN [val |-> lhs, p |-> q]
                ELSE LET r == RefBinaryValue(e, q + 1, prec + 1)
                     IN Loop(PPApply(e[q], lhs, r.val), r.p)
        first == RefUnaryValue(e, p0)
    IN Loop(first.val, first.p)
RefExprValue(e) == RefBinaryValue(e, 1, 4).val

\* C14: the value computed for a #if expression of integer literals,
\* parentheses and operators is the value under the main parser's
\* precedence and associativity, and the group is taken exactly when it is
\* not zero.
C14_IfPrecedence ==
    (pf_out # <<>> /\ pf_in.expr \in PPExprs)
        => /\ pf_out[1].val = RefExprValue(pf_in.expr)
           /\ (pf_out[1].skip_depth = 0) <=> (RefExprValue(pf_in.expr) # 0)

MaxArgs == 3

DefineLine(head, body) == <<"#", "define", "ws">> \o head \o <<"ws">> \o body
PPCase(defs, line, expect) ==
    [src |-> JoinLines(Append(defs, line)),
     out |-> [k \in 1..Len(defs) |-> "nl"] \o expect \o <<"nl">>]

RECURSIVE JoinComma(_)
JoinComma(args) ==
    IF args = <<>> THEN <<>>
    ELSE IF Len(args) = 1 THEN args[1]
    ELSE args[1] \o <<",">> \o JoinComma(Tail(args))

\* n copies of the unit u
Rep(u, n) == [i \in 1..n |-> u]

\* macros that refer to themselves or to each other.  The outermost call of
\* expand_macros_r has depth 0 and each replacement goes one deeper, so
\* names are replaced in the calls of depth 0..32 and the text handed to the
\* call of depth 33 is emitted as it is:  M -> M t1  leaves M after 33
\* replacements, and in  X -> Y, Y -> X t1  the name Y is replaced in the
\* calls of odd depth
C16Cases ==
    {PPCase(<<DefineLine(<<"M">>, <<"M">>)>>, <<"M">>, <<"M">>),
     PPCase(<<DefineLine(<<"M">>, <<"M", "t1">>)>>, <<"M">>,
            <<"M">> \o Rep("t1", PP_MAX_DEPTH + 1)),
     PPCase(<<DefineLine(<<"X">>, <<"Y">>), DefineLine(<<"Y">>, <<"X">>)>>,
            <<"X">>,
            IF PP_MAX_DEPTH % 2 = 0 THEN <<"Y">> ELSE <<"X">>),
     PPCase(<<DefineLine(<<"X">>, <<"Y">>),
              DefineLine(<<"Y">>, <<"X", "t1">>)>>,
            <<"X">>,
            (IF PP_MAX_DEPTH % 2 = 0 THEN <<"Y">> ELSE <<"X">>)
                \o Rep("t1", (PP_MAX_DEPTH + 1) \div 2))}

\* V(named..., ...) with body  t1 __VA_ARGS__ t2,  invoked with 0..MaxArgs
\* arguments after the named ones
ArgLists ==
    UNION {[1..k -> {<<"0">>, <<"1">>}] : k \in 0..MaxArgs}
C17Cases ==
    {PPCase(<<DefineLine(<<"V", "(", "...", ")">>,
                         <<"t1", "__VA_ARGS__", "t2">>)>>,
            <<"V", "(">> \o JoinComma(va) \o <<")">>,
            <<"t1">> \o JoinComma(va) \o <<"t2">>) : va \in ArgLists}
      \cup {PPCase(<<DefineLine(<<"V", "(", "a", ",", "...", ")">>,
                                <<"t1", "__VA_ARGS__", "t2">>)>>,
                   <<"V", "(">> \o JoinComma(<<<<"1">>>> \o va) \o <<")">>,
                   <<"t1">> \o JoinComma(va) \o <<"t2">>) : va \in ArgLists}

\* F(a,b) with body  t1 a t2 b t3,  invoked with two arguments that hold
\* commas and parentheses in nested parentheses and in literals
ArgForms ==
    {<<"1">>, <<"(", "0", ",", "1", ")">>, <<"q", ",", "q">>,
     <<"q", ")", "q">>, <<"q", "bs", "q", ",", "q">>, <<"sq", ",", "sq">>,
     <<"sq", "(", "sq">>, <<"sq", ")", "sq">>}
C18Cases ==
    {PPCase(<<DefineLine(<<"F", "(", "a", ",", "b", ")">>,
                         <<"t1", "a", "t2", "b", "t3">>)>>,
            <<"F", "(">> \o a1 \o <<",">> \o a2 \o <<")">>,
            <<"t1">> \o a1 \o <<"t2">> \o a2 \o <<"t3">>) :
         a1 \in ArgForms, a2 \in ArgForms}

\* literals on a source line with the macro M defined, and literals in the
\* body of F(a)
C19Cases ==
    {PPCase(<<DefineLine(<<"M">>, <<"1">>)>>, l, l) :
         l \in {<<"q", "M", "q">>, <<"sq", "M", "sq">>,
                <<"q", "bs", "q", "M", "q">>}}
      \cup {PPCase(<<DefineLine(<<"M">>, <<"1">>)>>, <<"M", "q", "M", "q">>,
                   <<"1", "q", "M", "q">>)}
      \cup {PPCase(<<DefineLine(<<"F", "(", "a", ")">>, b)>>,
                   <<"F", "(", "1", ")">>, b) :
                b \in {<<"q", "a", "q">>, <<"sq", "a", "sq">>,
                       <<"q", "#", "a", "q">>,
                       <<"q", "t1", "#", "#", "t2", "q">>}}

ExpandSources == {c.src : c \in C16Cases \cup C17Cases \cup C18Cases \cup C19Cases}

\* the preprocessor has returned and its output is the one the case asks for
PPCaseHolds(c) == (pp_done /\ pp_src = c.src) => pp_out = c.out

\* C16: expansion ends for macros that refer to themselves or to each other
\* in a cycle, with replacement nested to depth 32 at most and the text
\* reached at that depth emitted as it is.
C16_DepthLimit == \A c \in C16Cases : PPCaseHolds(c)
C16_Witness ==
    /\ pp_done
    /\ pp_src = JoinLines(<<DefineLine(<<"M">>, <<"M", "t1">>), <<"M">>>>)
    /\ pp_out = <<"nl", "M">> \o Rep("t1", PP_MAX_DEPTH + 1) \o <<"nl">>

\* C17: __VA_ARGS__ in the body of a variadic macro is replaced by the
\* arguments after the named parameters joined by commas, by nothing when
\* there are none.
C17_VaArgs == \A c \in C17Cases : PPCaseHolds(c)

\* C18: a comma or parenthesis separates or closes arguments only outside
\* nested parentheses, string literals and character literals.
C18_ArgumentSplit == \A c \in C18Cases : PPCaseHolds(c)

\* C19: the text inside a string or character literal is never changed, on
\* a source line and in the body of a function-like macro.
C19_LiteralsKept == \A c \in C19Cases : PPCaseHolds(c)

(***************************************************************************)
(* Symbol table (symtab.c) and the declarations that fill it (parser.c).   *)
(* A Scope is [parent, depth, is_func_scope, syms]; parent 0 is NULL.      *)
(* A Symbol is [kind, type, sc, is_defined, is_local]; kind "NULL" marks   *)
(* an empty hash chain for that name.                                      *)
(***************************************************************************)
MaxScopes == 3
MaxDecls == 3

SymNames == {"x", "puts"}
NullSym == [kind |-> "NULL", type |-> "NULL", sc |-> "SC_NONE",
            is_defined |-> FALSE, is_local |-> FALSE]

\* util.c error_at: print and count
error_at(n) == n + 1

new_scope(scopes, parent) ==
    [parent |-> parent,
     depth |-> IF parent # 0 THEN scopes[parent].depth + 1 ELSE 0,
     is_func_scope |-> FALSE,
     syms |-> [n \in SymNames |-> NullSym]]

\* symtab_init
symtab_init == [scopes |-> <<new_scope(<<>>, 0)>>, current |-> 1]

symtab_enter_scope(st) ==
    [scopes |-> Append(st.scopes, new_scope(st.scopes, st.current)),
     current |-> Len(st.scopes) + 1]

symtab_leave_scope(st) ==
    IF st.scopes[st.current].parent # 0
    THEN [st EXCEPT !.current = st.scopes[st.current].parent]
    ELSE st

symtab_enter_func_scope(st) ==
    LET e == symtab_enter_scope(st)
    IN [e EXCEPT !.scopes[e.current].is_func_scope = TRUE]

\* symtab_define: the table after the call and whether an error was reported
\* (the returned Symbol is always the entry of name in the current scope)
symtab_define(st, name, kind, type) ==
    LET s == st.scopes[st.current].syms[name]
        retyped == [st EXCEPT !.scopes[st.current].syms[name].type = type]
    IN IF s.kind # "NULL"
       THEN IF s.kind = "SYM_FUNC" /\ kind = "SYM_FUNC" /\ ~s.is_defined
            THEN [st |-> retyped, err |-> FALSE]
            ELSE IF s.sc = "SC_EXTERN"
            THEN [st |-> retyped, err |-> FALSE]
            ELSE [st |-> st, err |-> TRUE]
       ELSE [st |-> [st EXCEPT !.scopes[st.current].syms[name] =
                        [kind |-> kind, type |-> type, sc |-> "SC_NONE",
                         is_defined |-> FALSE, is_local |-> (st.current # 1)]],
             err |-> FALSE]

\* symtab_lookup: the scope whose entry is returned, 0 for NULL.  The code
\* walks from st->current along parent; the variant before it walks the
\* same chain but prefers the entry of the outermost scope.
symtab_lookup_outermost(scopes, sc, name) ==
    LET RECURSIVE Walk(_)
        Walk(i) ==
            IF i = 0 THEN 0
            ELSE LET up == Walk(scopes[i].parent)
                 IN IF up # 0 THEN up
                    ELSE IF scopes[i].syms[name].kind # "NULL" THEN i ELSE 0
    IN Walk(sc)
symtab_lookup(scopes, sc, name) ==
    LET RECURSIVE Walk(_)
        Walk(i) ==
            IF i = 0 THEN 0
            ELSE IF scopes[i].syms[name].kind # "NULL" THEN i
            ELSE Walk(scopes[i].parent)
    IN Walk(sc)

symtab_is_typedef(scopes, sc, name) ==
    LET s == symtab_lookup(scopes, sc, name)
    IN s # 0 /\ scopes[s].syms[name].kind = "SYM_TYPEDEF"

SymTab == [scopes |-> sym_scopes, current |-> sym_current]

NoCall == [op |-> "none", name |-> "", found |-> 0, is_typedef |-> FALSE]

\* parse_declaration and the enumerator loop store into the returned
\* Symbol after symtab_define has returned
SetSc(st, name, sc) == [st EXCEPT !.scopes[st.current].syms[name].sc = sc]
SetDefined(st, name) ==
    [st EXCEPT !.scopes[st.current].syms[name].is_defined = TRUE]

SymCommit(st, r) ==
    /\ sym_scopes' = st.scopes
    /\ sym_current' = st.current
    /\ sym_last' = NoCall
    /\ sym_decls' = sym_decls + 1
    /\ error_count' = IF r.err THEN error_at(error_count) ELSE error_count
    /\ UNCHANGED symOther

\* the translation unit has declarators left
SymCanDeclare == sym_decls < MaxDecls

\* parse_compound_stmt / for statement: a block opens
Sym_EnterScope ==
    /\ Len(sym_scopes) < MaxScopes
    /\ LET st == symtab_enter_scope(SymTab)
       IN /\ sym_scopes' = st.scopes
          /\ sym_current' = st.current
    /\ sym_last' = NoCall
    /\ UNCHANGED <<sym_decls, error_count, symOther>>

\* end of a block or of a function body
Sym_LeaveScope ==
    /\ LET st == symtab_leave_scope(SymTab)
       IN /\ sym_scopes' = st.scopes
          /\ sym_current' = st.current
    /\ sym_last' = NoCall
    /\ UNCHANGED <<sym_decls, error_count, symOther>>

\* parse_declaration, typedef branch: typedef long name;
Sym_DeclareTypedef(name) ==
    /\ SymCanDeclare
    /\ LET r == symtab_define(SymTab, name, "SYM_TYPEDEF", "long")
       IN SymCommit(SetSc(r.st, name, "SC_TYPEDEF"), r)

\* parse_declaration, variable: [extern] int name;
Sym_DeclareVar(name, sc) ==
    /\ SymCanDeclare
    /\ LET r == symtab_define(SymTab, name, "SYM_VAR", "int")
       IN SymCommit(SetSc(r.st, name, sc), r)

\* parse_declaration, function prototype: [extern] int name(void);
Sym_DeclareProto(name, sc) ==
    /\ SymCanDeclare
    /\ LET r == symtab_define(SymTab, name, "SYM_FUNC", "int")
       IN SymCommit(SetSc(r.st, name, sc), r)

\* parse_declaration, function definition up to the opening brace:
\* long name(int x) {  -- defines name, opens the function scope, defines x
Sym_FuncDef(name) ==
    /\ SymCanDeclare
    /\ sym_current = 1
    /\ Len(sym_scopes) < MaxScopes
    /\ LET r == symtab_define(SymTab, name, "SYM_FUNC", "long")
           f == symtab_enter_func_scope(
                    SetDefined(SetSc(r.st, name, "SC_NONE"), name))
           pr == symtab_define(f, "x", "SYM_PARAM", "int")
       IN SymCommit(pr.st, r)

\* enumerator in an enum specifier: enum { name };
Sym_EnumConst(name) ==
    /\ SymCanDeclare
    /\ LET r == symtab_define(SymTab, name, "SYM_ENUM_CONST", "int")
       IN SymCommit(r.st, r)

\* an identifier is looked up (parse_primary, is_type_name)
Sym_Lookup(name) ==
    /\ sym_last' = [op |-> "lookup", name |-> name,
                    found |-> symtab_lookup(sym_scopes, sym_current, name),
                    is_typedef |->
                        symtab_is_typedef(sym_scopes, sym_current, name)]
    /\ UNCHANGED <<sym_scopes, sym_current, sym_decls, error_count, symOther>>

\* register_builtins (main.c): puts is declared extern at file scope
SymBuiltins ==
    LET r == symtab_define(symtab_init, "puts", "SYM_FUNC", "int")
    IN SetSc(r.st, "puts", "SC_EXTERN")

SymStart ==
    /\ sym_scopes = SymBuiltins.scopes
    /\ sym_current = SymBuiltins.current
    /\ sym_last = NoCall
    /\ sym_decls = 0

(***************************************************************************)
(* Symbol table: properties                                                *)
(***************************************************************************)
\* the scopes that are open: the current scope and everything enclosing it
RefOpenScopes ==
    LET RECURSIVE Up(_)
        Up(i) == IF i = 0 THEN {} ELSE {i} \cup Up(sym_scopes[i].parent)
    IN Up(sym_current)

RefDefiners(name) ==
    {i \in RefOpenScopes : sym_scopes[i].syms[name].kind # "NULL"}

RefInnermost(name) ==
    CHOOSE i \in RefDefiners(name) :
        \A j \in RefDefiners(name) : sym_scopes[j].depth <= sym_scopes[i].depth

\* C3: symtab_lookup(name) returns the entry of the innermost open scope
\* that defines name (NULL when no open scope defines it), never an entry of
\* a scope that has been left, and symtab_is_typedef(name) is true exactly
\* when that innermost entry is a typedef.
C3_LookupInnermost ==
    sym_last.op = "lookup" =>
        LET name == sym_last.name
        IN IF RefDefiners(name) = {}
           THEN sym_last.found = 0 /\ ~sym_last.is_typedef
           ELSE /\ sym_last.found = RefInnermost(name)
                /\ sym_last.found \in RefOpenScopes
                /\ sym_last.is_typedef =
                       (sym_scopes[RefInnermost(name)].syms[name].kind
                            = "SYM_TYPEDEF")

\* C3 witness: x is a typedef at file scope, a block that defined x has been
\* left, the current block defines x as a variable, and the lookup of x
\* returned the current block's entry, which is not a typedef.
C3_Witness ==
    /\ sym_last.op = "lookup"
    /\ sym_last.name = "x"
    /\ sym_current # 1
    /\ sym_last.found = sym_current
    /\ ~sym_last.is_typedef
    /\ sym_scopes[1].syms["x"].kind = "SYM_TYPEDEF"
    /\ sym_scopes[sym_current].syms["x"].kind = "SYM_VAR"
    /\ \E i \in 1..Len(sym_scopes) :
          i \notin RefOpenScopes /\ sym_scopes[i].syms["x"].kind # "NULL"

\* the declarations by the symtab_define call they make: kind and the
\* storage class of the declaration
RefDeclForms ==
    {<<"SYM_TYPEDEF", "SC_TYPEDEF">>, <<"SYM_VAR", "SC_NONE">>,
     <<"SYM_VAR", "SC_EXTERN">>, <<"SYM_FUNC", "SC_NONE">>,
     <<"SYM_FUNC", "SC_EXTERN">>, <<"SYM_ENUM_CONST", "SC_NONE">>}

RefDeclStep(name, kind, sc) ==
    CASE kind = "SYM_TYPEDEF" -> Sym_DeclareTypedef(name)
      [] kind = "SYM_VAR" -> Sym_DeclareVar(name, sc)
      [] kind = "SYM_FUNC" -> \/ Sym_DeclareProto(name, sc)
                              \/ (sc = "SC_NONE" /\ Sym_FuncDef(name))
      [] kind = "SYM_ENUM_CONST" -> Sym_EnumConst(name)

RefRedefinition(name, kind, sc) ==
    LET old == sym_scopes[sym_current].syms[name]
    IN IF old.kind # "NULL"
       THEN IF \/ (old.kind = "SYM_FUNC" /\ kind = "SYM_FUNC" /\ ~old.is_defined)
               \/ old.sc = "SC_EXTERN"
               \/ sc = "SC_EXTERN"
            THEN error_count' = error_count
            ELSE /\ error_count' = error_count + 1
                 /\ \A ty \in {"int", "long"} :
                        symtab_define(SymTab, name, kind, ty).st = SymTab
       ELSE /\ error_count' = error_count
            /\ sym_scopes'[sym_current].syms[name].kind = kind

\* C4: symtab_define of a name that already has an entry in the current
\* scope reports one redefinition error and leaves the entry as it was,
\* except that no error is reported when (a) both declarations are functions
\* and the existing entry has no body, or (b) one of the two declarations is
\* extern, in either order; a name that exists only in an enclosing scope
\* gets a new entry in the current scope without an error.
C4_RedefinitionError ==
    [][\A name \in SymNames, f \in RefDeclForms :
          RefDeclStep(name, f[1], f[2]) => RefRedefinition(name, f[1], f[2])]_vars

(***************************************************************************)
(* Struct and union layout (parse_type_specifier in parser.c, type.c).     *)
(* A Type is [kind, size, align, members]; a Member is                     *)
(* [name, type, bit_width, idx, offset].                                   *)
(***************************************************************************)
MaxMembers == 3
MaxNest == 2
MaxFields == 6

new_type(kind, size, align) ==
    [kind |-> kind, size |-> size, align |-> align, members |-> <<>>,
     is_unsigned |-> FALSE]

ty_char == new_type("TY_CHAR", 1, 1)
ty_short == new_type("TY_SHORT", 2, 2)
ty_int == new_type("TY_INT", 4, 4)
ty_double == new_type("TY_DOUBLE", 8, 8)
type_array(base, len) == new_type("TY_ARRAY", base.size * len, base.align)
type_struct == new_type("TY_STRUCT", 0, 1)
type_union == new_type("TY_UNION", 0, 1)
type_sizeof(t) == t.size
type_alignof(t) == t.align

\* (x + a - 1) & ~(a - 1) for a power of two a, in two's complement
AlignMask(x, a) == ((x + a - 1) \div a) * a

\* struct P { char c; int i; }, laid out by the same code
ty_struct_P ==
    [type_struct EXCEPT
        !.size = 8, !.align = 4,
        !.members = <<[name |-> "c", type |-> ty_char, bit_width |-> -1,
                       idx |-> 0, offset |-> 0],
                      [name |-> "i", type |-> ty_int, bit_width |-> -1,
                       idx |-> 1, offset |-> 4]>>]

\* the member declarations tried: type and bit width (-1: not a bitfield);
\* int d[] is the flexible array member
LayFlexible == type_array(ty_int, -1)
LayMemberForms ==
    {<<t, -1>> : t \in {ty_char, ty_short, ty_int, ty_double,
                        type_array(ty_int, 2), ty_struct_P, LayFlexible}}
    \cup {<<ty_int, 3>>, <<ty_char, 3>>}

LayOpen == ~lay_ty.complete

\* the locals of parse_type_specifier while a member list is parsed
LayFrame ==
    [is_struct |-> lay_is_struct, head |-> lay_head, offset |-> lay_offset,
     max_align |-> lay_max_align, ty |-> lay_ty]
\* the member loop body, parser.c 199-246: the locals after one declarator
LayAddMember(fr, mname, mtype, bit_width) ==
    LET m == [name |-> mname, type |-> mtype, bit_width |-> bit_width,
              idx |-> Len(fr.head), offset |-> 0]
        align == type_alignof(mtype)
        off == AlignMask(fr.offset, align)
    IN IF fr.is_struct
       THEN [fr EXCEPT !.max_align = Max(@, align),
                       !.head = Append(@, [m EXCEPT !.offset = off]),
                       !.offset = IF bit_width < 0
                                  THEN off + type_sizeof(mtype) ELSE off]
       ELSE [fr EXCEPT !.head = Append(@, m),
                       !.offset = Max(@, type_sizeof(mtype)),
                       !.max_align = Max(@, type_alignof(mtype))]

\* one named declarator of the member list
Lay_Declarator(mname, mtype, bit_width) ==
    /\ LayOpen
    /\ Len(lay_head) < MaxMembers
    \* a flexible array member is the last member of a struct, after another one
    /\ \A k \in 1..Len(lay_head) : lay_head[k].type # LayFlexible
    /\ mtype = LayFlexible => (lay_is_struct /\ lay_head # <<>>)
    /\ LET fr == LayAddMember(LayFrame, mname, mtype, bit_width)
       IN /\ lay_head' = fr.head
          /\ lay_offset' = fr.offset
          /\ lay_max_align' = fr.max_align
    /\ UNCHANGED <<lay_is_struct, lay_ty, lay_stack, layOther>>
Lay_AddMember(mtype, bit_width) == Lay_Declarator("m", mtype, bit_width)

\* parser.c 252-282: members of anonymous struct/union members are copied
\* into the parent with adjusted offsets, until none is left
LayIsAnon(m) == m.name = "" /\ m.type.kind \in {"TY_STRUCT", "TY_UNION"}
\* A variant of LayFlatten that copies the sub-members as they are
RECURSIVE LayFlattenUnpatched(_)
LayFlattenUnpatched(ms) ==
    LET Sub(m) == m.type.members
        pass == Flatten([k \in 1..Len(ms) |->
                            IF LayIsAnon(ms[k]) THEN Sub(ms[k]) ELSE <<ms[k]>>])
    IN IF \E k \in 1..Len(ms) : LayIsAnon(ms[k])
       THEN LayFlattenUnpatched(pass) ELSE ms
RECURSIVE LayFlatten(_)
LayFlatten(ms) ==
    LET Sub(m) == [k \in 1..Len(m.type.members) |->
                      [m.type.members[k] EXCEPT !.offset = @ + m.offset]]
        pass == Flatten([k \in 1..Len(ms) |->
                            IF LayIsAnon(ms[k]) THEN Sub(ms[k]) ELSE <<ms[k]>>])
    IN IF \E k \in 1..Len(ms) : LayIsAnon(ms[k]) THEN LayFlatten(pass) ELSE ms

\* parser.c 250-290: the type once the closing brace is read
LayComplete(fr) ==
    [kind |-> fr.ty.kind,
     size |-> AlignMask(fr.offset, fr.max_align),
     align |-> fr.max_align,
     members |-> LayFlatten(fr.head),
     is_unsigned |-> FALSE]

\* the closing brace of the outermost specifier
Lay_Finish ==
    /\ LayOpen
    /\ lay_stack = <<>>
    /\ lay_head' = LayFlatten(lay_head)
    /\ lay_ty' = LayComplete(LayFrame) @@ [complete |-> TRUE]
    /\ UNCHANGED <<lay_is_struct, lay_offset, lay_max_align, lay_stack,
                   layOther>>

\* a member that starts with  struct {  or  union { : parse_type_specifier
\* is entered again (parser.c 197) and parses the inner member list
Lay_EnterAnon(is_struct) ==
    /\ LayOpen
    /\ Len(lay_head) < MaxMembers
    /\ Len(lay_stack) < MaxNest
    /\ lay_stack' = Append(lay_stack, LayFrame)
    /\ lay_is_struct' = is_struct
    /\ lay_head' = <<>>
    /\ lay_offset' = 0
    /\ lay_max_align' = 1
    /\ lay_ty' = (IF is_struct THEN type_struct ELSE type_union)
                     @@ [complete |-> FALSE]
    /\ UNCHANGED layOther
\* the closing brace of an inner specifier followed by ';': the inner type
\* is completed and becomes an anonymous member of the enclosing specifier
Lay_FinishAnon ==
    /\ LayOpen
    /\ lay_stack # <<>>
    /\ LET fr == LayAddMember(lay_stack[Len(lay_stack)], "",
                              LayComplete(LayFrame), -1)
       IN /\ lay_is_struct' = fr.is_struct
          /\ lay_head' = fr.head
          /\ lay_offset' = fr.offset
          /\ lay_max_align' = fr.max_align
          /\ lay_ty' = fr.ty
    /\ lay_stack' = SubSeq(lay_stack, 1, Len(lay_stack) - 1)
    /\ UNCHANGED layOther

LayIdle ==
    /\ lay_is_struct = TRUE
    /\ lay_head = <<>>
    /\ lay_offset = 0
    /\ lay_max_align = 1
    /\ lay_ty = type_struct @@ [complete |-> TRUE]
    /\ lay_stack = <<>>

(***************************************************************************)
(* Struct and union layout: properties                                     *)
(***************************************************************************)
\* the smallest multiple of a that is not less than x
RefRoundUp(x, a) ==
    CHOOSE m \in x..(x + a) : m % a = 0 /\ \A k \in x..(m - 1) : k % a # 0

RefEnd(m) == m.offset + type_sizeof(m.type)

RefMaxOf(S, dflt) == IF S = {} THEN dflt ELSE CHOOSE v \in S : \A w \in S : w <= v

\* C5: in a struct every member sits at the smallest multiple of its
\* alignment that is not below the end of the members before it, the struct's
\* alignment is the largest member alignment and its size is a multiple of
\* that alignment not below the end of the last member; in a union every
\* member is at offset 0 and the size is the largest member size rounded up
\* to the largest member alignment.
C5_Layout ==
    lay_ty.complete =>
        LET ms == lay_ty.members
            k == Len(ms)
            maxal == RefMaxOf({type_alignof(ms[i].type) : i \in 1..k}, 1)
        IN IF lay_is_struct
           THEN /\ \A i \in 1..k :
                      ms[i].offset =
                          RefRoundUp(RefMaxOf({RefEnd(ms[j]) : j \in 1..(i - 1)}, 0),
                                     type_alignof(ms[i].type))
                /\ lay_ty.align = maxal
                /\ lay_ty.size % lay_ty.align = 0
                /\ k > 0 => lay_ty.size >= RefEnd(ms[k])
           ELSE /\ \A i \in 1..k : ms[i].offset = 0
                /\ lay_ty.align = maxal
                /\ lay_ty.size =
                       RefRoundUp(RefMaxOf({type_sizeof(ms[i].type) : i \in 1..k}, 0),
                                  maxal)

\* the bytes a member occupies
RefStorage(m) == m.offset..(RefEnd(m) - 1)

\* C25: a bitfield member is laid out like a full-width member of its
\* declared type: the member declared after it starts at or after the
\* bitfield's offset plus the size of its type, and in every struct the
\* storage of distinct members, bitfields included, is pairwise disjoint.
C25_BitfieldStorage ==
    (/\ lay_ty.complete
     /\ lay_is_struct
     /\ \A k \in 1..Len(lay_ty.members) : lay_ty.members[k].type # LayFlexible)
        => LET ms == lay_ty.members
           IN /\ \A i \in 1..(Len(ms) - 1) :
                    ms[i].bit_width >= 0 => ms[i + 1].offset >= RefEnd(ms[i])
              /\ \A i, j \in 1..Len(ms) :
                    i # j => RefStorage(ms[i]) \cap RefStorage(ms[j]) = {}

\* C29: no type has a negative size: an array of unspecified length, the
\* flexible array member of a struct included, has size 0, so the size of
\* a struct that ends in one is not below the end of its last sized member
\* and every member ends within the struct.
C29_SizesNonNegative ==
    (/\ lay_ty.complete
     /\ \A k \in 1..Len(lay_ty.members) : lay_ty.members[k].bit_width < 0)
        => LET ms == lay_ty.members
           IN /\ type_sizeof(lay_ty) >= 0
              /\ \A k \in 1..Len(ms) :
                    /\ type_sizeof(ms[k].type) >= 0
                    /\ ms[k].type = LayFlexible => type_sizeof(ms[k].type) = 0
                    /\ RefEnd(ms[k]) <= type_sizeof(lay_ty)
              /\ \A k \in 1..Len(ms) :
                    ms[k].type # LayFlexible
                        => type_sizeof(lay_ty) >= RefEnd(ms[k])

(***************************************************************************)
(* Code generator (codegen.c).                                             *)
(* AST nodes are records with the fields of Node that the generator reads. *)
(* Emitted JavaScript is kept as a sequence of items, one per top-level    *)
(* statement: [sec, name, n, ops, refs].  ops is the body of an emitted    *)
(* function as a list of runtime operations [op, f, n, form]; refs is the  *)
(* set of __fp_X / __strN constants the item's text mentions.              *)
(***************************************************************************)
NoNode == [kind |-> "NULL"]
ty_void == new_type("TY_VOID", 0, 1)
type_ptr == [new_type("TY_PTR", 4, 4) EXCEPT !.is_unsigned = TRUE]

Item(sec, name, n, ops, refs) ==
    [sec |-> sec, name |-> name, n |-> n, ops |-> ops, refs |-> refs]
Op(op, f, n, form) == [op |-> op, f |-> f, n |-> n, form |-> form]
FpRef(name) == [k |-> "__fp_", name |-> name, idx |-> 0]
StrRef(idx) == [k |-> "__str", name |-> "", idx |-> idx]

type_sz(t) == IF t.size > 0 THEN t.size ELSE 4
is_aggregate(t) == t.kind \in {"TY_STRUCT", "TY_UNION"}
is_stdlib_func(name) == name \in {"puts", "rand", "malloc"}

\* var_find: locals first, then globals; the most recent entry of a name wins
var_find(cg, name) ==
    LET Last(vs) ==
            LET ks == {k \in 1..Len(vs) : vs[k].name = name}
            IN IF ks = {} THEN NoNode
               ELSE vs[CHOOSE k \in ks : \A j \in ks : j <= k]
    IN IF Last(cg.locals).kind # "NULL" THEN Last(cg.locals)
       ELSE Last(cg.globals)

CGVar(name, addr, type, is_local) ==
    [kind |-> "CGVar", name |-> name, addr |-> addr, type |-> type,
     is_local |-> is_local]
var_set_local(cg, name, addr, type) ==
    [cg EXCEPT !.locals = Append(@, CGVar(name, addr, type, TRUE))]
var_set_global(cg, name, addr, type) ==
    [cg EXCEPT !.globals = Append(@, CGVar(name, addr, type, FALSE))]

alloc_local(cg, ty) ==
    LET size == type_sz(ty)
        align == IF ty.align > 0 THEN ty.align ELSE 1
        so == AlignMask(cg.stack_offset, align) + size
    IN [cg |-> [cg EXCEPT !.stack_offset = so], off |-> -so]

\* gen_expr: the generator state afterwards, the runtime operations of the
\* emitted expression in evaluation order, and the constants it mentions
RECURSIVE gen_expr(_, _)
gen_expr(cg, n) ==
    CASE n.kind = "ND_INT_LIT" ->
            [cg |-> cg, ops |-> <<Op("lit", "", n.ival, "")>>, refs |-> {}]
      [] n.kind = "ND_STRING_LIT" ->
            LET idx == cg.str_count
            IN [cg |-> [cg EXCEPT
                          !.str_count = idx + 1,
                          !.data_section =
                              Append(@, Item("str", "", idx, <<>>, {}))],
                ops |-> <<Op("lit", "", 0, "")>>,
                refs |-> {StrRef(idx)}]
      [] n.kind = "ND_IDENT" ->
            LET v == var_find(cg, n.name)
            IN IF v.kind = "NULL"
               THEN IF n.name \in cg.sym_funcs
                    THEN [cg |-> cg, ops |-> <<Op("lit", "", 0, "")>>,
                          refs |-> {FpRef(n.name)}]
                    ELSE [cg |-> cg, ops |-> <<Op("lit", "", 0, "")>>,
                          refs |-> {}]
               ELSE LET where == IF v.is_local THEN "bp" ELSE "abs"
                    IN IF v.type.kind \in {"TY_ARRAY", "TY_VLA",
                                           "TY_STRUCT", "TY_UNION"}
                       THEN [cg |-> cg, refs |-> {},
                             ops |-> <<Op("addr", "", v.addr, where)>>]
                       ELSE [cg |-> cg, refs |-> {},
                             ops |-> <<Op("load", "", v.addr, where)>>]
      [] n.kind = "ND_CALL" ->
            LET is_direct == var_find(cg, n.name).kind = "NULL"
                                 /\ n.name \in cg.sym_funcs
                sret == is_aggregate(n.type)
                t == IF sret THEN alloc_local(cg, n.type)
                     ELSE [cg |-> cg, off |-> 0]
                none == [cg |-> t.cg, ops |-> <<>>, refs |-> {}]
                callee == IF is_direct THEN none
                          ELSE gen_expr(t.cg, [n EXCEPT !.kind = "ND_IDENT"])
                a == IF n.arg.kind = "NULL"
                     THEN [callee EXCEPT !.ops = <<>>, !.refs = {}]
                     ELSE gen_expr(callee.cg, n.arg)
                call == IF is_direct /\ is_stdlib_func(n.name)
                        THEN Op("rtcall", n.name, 0, "")
                        ELSE IF is_direct
                        THEN Op("call", n.name, t.off,
                                IF sret THEN "sret" ELSE "")
                        ELSE Op("rtcall", "callFunction", 0, "")
            IN [cg |-> a.cg,
                ops |-> callee.ops \o a.ops \o <<call>>,
                refs |-> callee.refs \cup a.refs]

\* gen_global_init: the initializer's code goes to data_section, after the
\* string-literal declarations its expression added there
gen_global_init(cg, addr, ty, init) ==
    LET e == gen_expr(cg, init)
        form == IF init.kind = "ND_STRING_LIT" /\ ty.kind = "TY_ARRAY"
                THEN "rt.strcpy"
                ELSE IF is_aggregate(ty) THEN "rt.memcpy" ELSE "rt.mem.write"
    IN [e.cg EXCEPT !.data_section =
                        Append(@, Item("init", form, addr, <<>>, e.refs))]

\* A variant of gen_global_var that does not align the address
gen_global_var_unaligned(cg, n) ==
    LET size == type_sz(n.type)
        g == cg.global_offset
        c1 == var_set_global(cg, n.var_name, g, n.type)
        c2 == IF n.var_init.kind # "NULL"
              THEN gen_global_init(c1, g, n.type, n.var_init) ELSE c1
    IN [c2 EXCEPT !.global_offset = g + size]
gen_global_var(cg, n) ==
    LET size == type_sz(n.type)
        align == IF n.type.align > 0 THEN n.type.align ELSE 1
        g == AlignMask(cg.global_offset, align)
        c1 == var_set_global(cg, n.var_name, g, n.type)
        c2 == IF n.var_init.kind # "NULL"
              THEN gen_global_init(c1, g, n.type, n.var_init) ELSE c1
    IN [c2 EXCEPT !.global_offset = g + size]

\* ND_RETURN with the return expression e already generated.  The variant
\* before it restores the stack pointer first and evaluates afterwards.
gen_return_restore_first(ret_type, has_lhs, e) ==
    IF is_aggregate(ret_type) /\ has_lhs
    THEN <<Op("restore", "", 0, "aggregate")>> \o e.ops
             \o <<Op("memcpy_ret", "", type_sz(ret_type), ""),
                  Op("return", "", 0, "aggregate")>>
    ELSE IF has_lhs
    THEN <<Op("restore", "", 0, "scalar")>> \o e.ops
             \o <<Op("set_ret", "", 0, ""), Op("return", "", 0, "scalar")>>
    ELSE <<Op("restore", "", 0, "void"), Op("return", "", 0, "void")>>
gen_return(ret_type, has_lhs, e) ==
    IF is_aggregate(ret_type) /\ has_lhs
    THEN e.ops \o <<Op("memcpy_ret", "", type_sz(ret_type), ""),
                    Op("restore", "", 0, "aggregate"),
                    Op("return", "", 0, "aggregate")>>
    ELSE IF has_lhs
    THEN e.ops \o <<Op("set_ret", "", 0, ""),
                    Op("restore", "", 0, "scalar"),
                    Op("return", "", 0, "scalar")>>
    ELSE <<Op("restore", "", 0, "void"), Op("return", "", 0, "void")>>

\* ND_VAR_DECL with SC_STATIC (codegen.c 931-942): a slot in global memory,
\* the initializer in the data section, nothing in the function body.  The
\* variant before it also assigns the initial value in the function body.
gen_static_local_in_body(cg, n) ==
    LET size == type_sz(n.type)
        align == IF n.type.align > 0 THEN n.type.align ELSE 1
        g == AlignMask(cg.global_offset, align)
        c1 == var_set_global(cg, n.var_name, g, n.type)
        c2 == IF n.var_init.kind # "NULL"
              THEN gen_global_init(c1, g, n.type, n.var_init) ELSE c1
    IN [cg |-> [c2 EXCEPT !.global_offset = g + size],
        ops |-> <<Op("lit", "", 1, ""), Op("store", "", g, "abs")>>,
        refs |-> {}]
gen_static_local(cg, n) ==
    LET size == type_sz(n.type)
        align == IF n.type.align > 0 THEN n.type.align ELSE 1
        g == AlignMask(cg.global_offset, align)
        c1 == var_set_global(cg, n.var_name, g, n.type)
        c2 == IF n.var_init.kind # "NULL"
              THEN gen_global_init(c1, g, n.type, n.var_init) ELSE c1
    IN [cg |-> [c2 EXCEPT !.global_offset = g + size],
        ops |-> <<>>, refs |-> {}]

\* ND_FOR (codegen.c 1019-1044) generates, in this order, its init (a
\* declaration gets a stack slot and a local entry like any non-static
\* declaration, whatever its storage class), its condition, its increment
\* and its body, each only if present: the same as this statement list
ForSequence(n) ==
    LET init == IF n.for_init.kind = "ND_VAR_DECL"
                THEN [n.for_init EXCEPT !.var_sc = "SC_NONE"]
                ELSE [kind |-> "ND_EXPR_STMT", lhs |-> n.for_init]
        cond == [kind |-> "ND_EXPR_STMT", lhs |-> n.for_cond]
        inc == [kind |-> "ND_EXPR_STMT", lhs |-> n.for_inc]
        Present(s) == s.kind # "ND_EXPR_STMT" \/ s.lhs.kind # "NULL"
    IN [kind |-> "ND_BLOCK",
        body |-> SelectSeq(<<init, cond, inc, n.for_body>>, Present)]

\* gen_stmt: generator state, emitted operations, constants mentioned
RECURSIVE gen_stmt(_, _)
gen_stmt(cg, n) ==
    CASE n.kind = "ND_BLOCK" ->
            LET RECURSIVE Each(_, _)
                Each(acc, k) ==
                    IF k > Len(n.body) THEN acc
                    ELSE LET r == gen_stmt(acc.cg, n.body[k])
                         IN Each([cg |-> r.cg, ops |-> acc.ops \o r.ops,
                                  refs |-> acc.refs \cup r.refs], k + 1)
            IN Each([cg |-> cg, ops |-> <<>>, refs |-> {}], 1)
      [] n.kind = "ND_VAR_DECL" /\ n.var_sc = "SC_STATIC" ->
            gen_static_local(cg, n)
      [] n.kind = "ND_VAR_DECL" /\ n.var_sc # "SC_STATIC" ->
            LET l == alloc_local(cg, n.type)
                c1 == var_set_local(l.cg, n.var_name, l.off, n.type)
            IN IF n.var_init.kind # "NULL"
               THEN LET e == gen_expr(c1, n.var_init)
                    IN [cg |-> e.cg,
                        ops |-> e.ops \o <<Op("store", "", l.off, "")>>,
                        refs |-> e.refs]
               ELSE [cg |-> c1, ops |-> <<>>, refs |-> {}]
      [] n.kind = "ND_IF" ->
            LET c == gen_expr(cg, n.lhs)
                t == gen_stmt(c.cg, n.rhs)
            IN [cg |-> t.cg,
                ops |-> c.ops \o <<Op("branch", "", Len(t.ops), "")>> \o t.ops,
                refs |-> c.refs \cup t.refs]
      [] n.kind = "ND_RETURN" ->
            LET e == IF n.lhs.kind # "NULL" THEN gen_expr(cg, n.lhs)
                     ELSE [cg |-> cg, ops |-> <<>>, refs |-> {}]
            IN [cg |-> e.cg,
                ops |-> gen_return(cg.current_func_ret_type,
                                   n.lhs.kind # "NULL", e),
                refs |-> e.refs]
      [] n.kind = "ND_FOR" -> gen_stmt(cg, ForSequence(n))
      [] n.kind = "ND_EXPR_STMT" -> gen_expr(cg, n.lhs)
      [] OTHER -> [cg |-> cg, ops |-> <<>>, refs |-> {}]

\* the implicit return at the end of every function body.  The variant
\* before it leaves the stack pointer alone in functions other than main.
gen_func_epilogue_no_restore(func_name) ==
    IF func_name = "main"
    THEN <<Op("restore", "", 0, "implicit"), Op("return", "", 0, "zero")>>
    ELSE <<Op("return", "", 0, "end")>>
gen_func_epilogue(func_name) ==
    IF func_name = "main"
    THEN <<Op("restore", "", 0, "implicit"), Op("return", "", 0, "zero")>>
    ELSE <<Op("restore", "", 0, "implicit"), Op("return", "", 0, "end")>>

\* gen_func: one item "func" appended to cg.out
gen_func(cg, n) ==
    LET c0 == [cg EXCEPT !.stack_offset = 0, !.locals = <<>>,
                         !.current_func_ret_type = n.type.return_type]
        RECURSIVE Params(_, _)
        Params(acc, k) ==
            IF k > Len(n.type.params) THEN acc
            ELSE LET pm == n.type.params[k]
                     l == alloc_local(acc.cg, pm.type)
                 IN Params([cg |-> var_set_local(l.cg, pm.name, l.off, pm.type),
                            ops |-> Append(acc.ops,
                                           Op("store_param", pm.name, l.off, ""))],
                           k + 1)
        ps == Params([cg |-> c0, ops |-> <<>>], 1)
        body == gen_stmt(ps.cg, n.func_body)
        frame == AlignMask(body.cg.stack_offset, 16)
        ops == <<Op("enter", "", 0, "")>> \o ps.ops
                   \o <<Op("frame", "", frame, "")>> \o body.ops
                   \o gen_func_epilogue(n.func_name)
    IN [body.cg EXCEPT
           !.out = Append(@, Item("func", n.func_name, frame, ops, body.refs))]

(***************************************************************************)
(* codegen_generate, one action per loop iteration or emitted section      *)
(***************************************************************************)
MaxNodes == 3

IntLit(v) == [kind |-> "ND_INT_LIT", name |-> "", ival |-> v, arg |-> NoNode,
              type |-> ty_int]
StringLit == [kind |-> "ND_STRING_LIT", name |-> "", ival |-> 0, arg |-> NoNode,
              type |-> type_ptr]
Ident(name, ty) == [kind |-> "ND_IDENT", name |-> name, ival |-> 0,
                    arg |-> NoNode, type |-> ty]
Call(name, arg, ty) == [kind |-> "ND_CALL", name |-> name, ival |-> 0,
                        arg |-> arg, type |-> ty]
VarDecl(name, ty, sc, init) ==
    [kind |-> "ND_VAR_DECL", var_name |-> name, type |-> ty, var_sc |-> sc,
     var_init |-> init]
Return(e) == [kind |-> "ND_RETURN", lhs |-> e]
ExprStmt(e) == [kind |-> "ND_EXPR_STMT", lhs |-> e]
If(c, t) == [kind |-> "ND_IF", lhs |-> c, rhs |-> t]
Block(ss) == [kind |-> "ND_BLOCK", body |-> ss]
FuncDef(name, ret, params, ss) ==
    [kind |-> "ND_FUNC_DEF", func_name |-> name,
     type |-> [return_type |-> ret, params |-> params],
     func_body |-> Block(ss)]

\* the top-level declarations tried at position i of the translation unit
CgVarName == <<"v1", "v2", "v3", "v4">>
CgGlobalForms(i) ==
    {VarDecl(CgVarName[i], ty_int, "SC_NONE", NoNode),
     VarDecl(CgVarName[i], ty_char, "SC_NONE", IntLit(1)),
     VarDecl(CgVarName[i], ty_double, "SC_STATIC", NoNode),
     VarDecl(CgVarName[i], ty_struct_P, "SC_EXTERN", NoNode),
     VarDecl(CgVarName[i], type_ptr, "SC_NONE", StringLit),
     VarDecl(CgVarName[i], type_ptr, "SC_NONE", Ident("f", type_ptr)),
     VarDecl(CgVarName[i], type_ptr, "SC_NONE", Ident("puts", type_ptr)),
     [kind |-> "ND_TYPEDEF"]}
CgFuncForms ==
    {FuncDef("f", ty_int, <<>>, ss) :
        ss \in {<<>>,
                <<VarDecl("n", ty_int, "SC_STATIC", IntLit(1)),
                  Return(Ident("n", ty_int))>>,
                <<ExprStmt(Call("puts", StringLit, ty_int))>>}}
    \cup
    {FuncDef("main", ty_int, <<>>, ss) :
        ss \in {<<Return(IntLit(0))>>,
                <<VarDecl("c", ty_char, "SC_NONE", IntLit(1)),
                  VarDecl("d", ty_double, "SC_STATIC", NoNode)>>}}

CgDefined(prog) ==
    {prog[k].func_name : k \in {j \in 1..Len(prog) : prog[j].kind = "ND_FUNC_DEF"}}

\* translation units that pass the parser and sema: no function is defined
\* twice and f is only named where the unit defines it
CgPrograms ==
    LET RECURSIVE Units(_)
        Units(n) ==
            IF n = 0 THEN {<<>>}
            ELSE {Append(p, d) : p \in Units(n - 1),
                                 d \in CgGlobalForms(n) \cup CgFuncForms}
        Uses(nd, name) == nd.kind = "ND_VAR_DECL" /\ nd.var_init.kind = "ND_IDENT"
                              /\ nd.var_init.name = name
    IN {p \in UNION {Units(n) : n \in 0..MaxNodes} :
          /\ \A j, k \in 1..Len(p) :
                (j # k /\ p[j].kind = "ND_FUNC_DEF" /\ p[k].kind = "ND_FUNC_DEF")
                    => p[j].func_name # p[k].func_name
          /\ \A k \in 1..Len(p) : Uses(p[k], "f") => "f" \in CgDefined(p)}

\* codegen_init, and the functions the symbol table knows at file scope
codegen_init(prog) ==
    [out |-> <<>>, data_section |-> <<>>, str_count |-> 0, stack_offset |-> 0,
     globals |-> <<>>, locals |-> <<>>, current_func_ret_type |-> ty_void,
     global_offset |-> 4096,
     sym_funcs |-> {"puts", "rand"} \cup CgDefined(prog)]

CG_Header ==
    /\ cg_pc = "start"
    /\ codegen' = [codegen EXCEPT !.out = Append(@, Item("runtime", "rt", 0, <<>>, {}))]
    /\ cg_pc' = "globals"
    /\ cg_i' = 1
    /\ UNCHANGED <<cg_prog, cg_saved, cgOther>>

\* "Collect globals": one iteration of the first loop
CG_GlobalVar ==
    /\ cg_pc = "globals"
    /\ cg_i <= Len(cg_prog)
    /\ LET n == cg_prog[cg_i]
       IN codegen' = IF n.kind = "ND_VAR_DECL" /\ n.var_sc # "SC_TYPEDEF"
                THEN gen_global_var(codegen, n) ELSE codegen
    /\ cg_i' = cg_i + 1
    /\ UNCHANGED <<cg_prog, cg_pc, cg_saved, cgOther>>

\* the output is switched to func_buf
CG_BeginFuncs ==
    /\ cg_pc = "globals"
    /\ cg_i > Len(cg_prog)
    /\ cg_saved' = codegen.out
    /\ codegen' = [codegen EXCEPT !.out = <<>>]
    /\ cg_pc' = "funcs"
    /\ cg_i' = 1
    /\ UNCHANGED <<cg_prog, cgOther>>

\* "Generate functions": one iteration of the second loop
CG_Func ==
    /\ cg_pc = "funcs"
    /\ cg_i <= Len(cg_prog)
    /\ LET n == cg_prog[cg_i]
       IN codegen' = IF n.kind = "ND_FUNC_DEF" THEN gen_func(codegen, n) ELSE codegen
    /\ cg_i' = cg_i + 1
    /\ UNCHANGED <<cg_prog, cg_pc, cg_saved, cgOther>>

\* the output is switched back; reserveGlobals and the functions are emitted
CG_EmitData ==
    /\ cg_pc = "funcs"
    /\ cg_i > Len(cg_prog)
    /\ codegen' = [codegen EXCEPT
                 !.out = Append(cg_saved,
                                Item("reserve", "rt.mem.reserveGlobals",
                                     codegen.global_offset, <<>>, {})) \o codegen.out]
    /\ cg_pc' = "fps"
    /\ UNCHANGED <<cg_prog, cg_i, cg_saved, cgOther>>

\* const __fp_X = rt.registerFunction(_X) for every ND_FUNC_DEF
CG_FuncPtrs ==
    /\ cg_pc = "fps"
    /\ LET defs == SelectSeq(cg_prog, LAMBDA n : n.kind = "ND_FUNC_DEF")
       IN codegen' = [codegen EXCEPT
                    !.out = @ \o [k \in 1..Len(defs) |->
                                     Item("fp", defs[k].func_name, 0, <<>>, {})]]
    /\ cg_pc' = "data"
    /\ UNCHANGED <<cg_prog, cg_i, cg_saved, cgOther>>

\* the data section: string literals and global initializers
CG_GlobalData ==
    /\ cg_pc = "data"
    /\ codegen' = [codegen EXCEPT !.out = @ \o codegen.data_section]
    /\ cg_pc' = "entry"
    /\ UNCHANGED <<cg_prog, cg_i, cg_saved, cgOther>>

\* process.exit(_main() | 0)
CG_Entry ==
    /\ cg_pc = "entry"
    /\ codegen' = [codegen EXCEPT !.out = Append(@, Item("entry", "main", 0, <<>>, {}))]
    /\ cg_pc' = "done"
    /\ UNCHANGED <<cg_prog, cg_i, cg_saved, cgOther>>

CgIdle ==
    /\ codegen = codegen_init(<<>>)
    /\ cg_prog = <<>>
    /\ cg_pc = "idle"
    /\ cg_i = 1
    /\ cg_saved = <<>>

(***************************************************************************)
(* codegen_generate: properties                                            *)
(***************************************************************************)
RefRange(v) == v.addr..(v.addr + type_sizeof(v.type) - 1)

\* C8: every file-scope variable and every static local gets an address of
\* at least 4096 that is a multiple of its type's alignment, the storage
\* ranges of distinct variables are disjoint, and every range lies below
\* the N of the emitted rt.mem.reserveGlobals(N).
C8_GlobalAddresses ==
    LET gs == codegen.globals
        out == codegen.out
    IN /\ \A k \in 1..Len(gs) :
              /\ gs[k].addr >= 4096
              /\ gs[k].addr % type_alignof(gs[k].type) = 0
       /\ \A j, k \in 1..Len(gs) :
              j # k => RefRange(gs[j]) \cap RefRange(gs[k]) = {}
       /\ \A i \in 1..Len(out) :
              out[i].sec = "reserve" =>
                  \A k \in 1..Len(gs) : \A a \in RefRange(gs[k]) : a < out[i].n
       /\ cg_pc = "done" => \E i \in 1..Len(out) : out[i].sec = "reserve"

\* C8 witness: generation is complete, a char variable is followed by a
\* static local of a function that had to be padded up to its alignment.
C8_Witness ==
    /\ cg_pc = "done"
    /\ \E j, k \in 1..Len(codegen.globals) :
          /\ j < k
          /\ codegen.globals[j].type = ty_char
          /\ codegen.globals[k].name \in {"n", "d"}
          /\ codegen.globals[k].addr > codegen.globals[j].addr + 1

RefRank(sec) ==
    CASE sec = "runtime" -> 1
      [] sec = "reserve" -> 2
      [] sec = "func" -> 3
      [] sec = "fp" -> 4
      [] sec \in {"str", "init"} -> 5
      [] sec = "entry" -> 6

RefDeclares(item, r) ==
    \/ r.k = "__fp_" /\ item.sec = "fp" /\ item.name = r.name
    \/ r.k = "__str" /\ item.sec = "str" /\ item.n = r.idx

\* C9: the emitted program is runtime construction, reserveGlobals, the
\* function bodies, the function-pointer registrations, the string-literal
\* allocations and global initializers, and the entry, in this order; so
\* every __fp_X or __strN that a global initializer mentions is declared
\* before that initializer and nothing is initialized before reserveGlobals.
C9_SectionOrder ==
    cg_pc = "done" =>
        LET out == codegen.out
        IN /\ \A i, j \in 1..Len(out) :
                  i < j => RefRank(out[i].sec) <= RefRank(out[j].sec)
           /\ Cardinality({i \in 1..Len(out) : out[i].sec = "reserve"}) = 1
           /\ out[Len(out)].sec = "entry"
           /\ \A k \in 1..Len(out) :
                  out[k].sec = "init" =>
                      \A r \in out[k].refs :
                          \E j \in 1..(k - 1) : RefDeclares(out[j], r)

(***************************************************************************)
(* The emitted functions at run time.  A frame of the JavaScript stack is  *)
(* [fn, pc, saved_sp, bp, retptr, acc, ret, ret_set, restored]: the        *)
(* constants saved_sp and bp, the parameter p___retptr, the value of the   *)
(* expression being evaluated, the variable __ret, whether the return      *)
(* statement has stored its result, and which statement restored sp.       *)
(***************************************************************************)
MaxStmts == 2
MaxDepth == 3
RtStackTop == 16 * 1024 * 1024

\* the functions of the programs that are run: f returns T, takes an int
\* parameter or none, and its body is at most MaxStmts of these statements
RtCallF(T, P) == Call("f", IF P THEN IntLit(1) ELSE NoNode, T)
RtCond == Call("rand", NoNode, ty_int)
RtStmts(T, P) ==
    {ExprStmt(RtCallF(T, P))} \cup
    (CASE T = ty_void ->
              {Return(NoNode), If(RtCond, Return(NoNode))}
       [] T = ty_int ->
              {Return(IntLit(2)), Return(RtCallF(T, P)),
               If(RtCond, Return(IntLit(2)))}
              \cup (IF P THEN {Return(Call("f", RtCallF(T, P), T))} ELSE {})
       [] OTHER ->
              {Return(Ident("s", T)), Return(RtCallF(T, P)),
               If(RtCond, Return(Ident("s", T)))})
RtBodies(T, P) == UNION {[1..n -> RtStmts(T, P)] : n \in 0..MaxStmts}
RtMainBodies(T, P) ==
    {<<ExprStmt(RtCallF(T, P))>>,
     <<If(RtCond, Return(IntLit(0))), ExprStmt(RtCallF(T, P))>>}
    \cup (IF T = ty_int THEN {<<Return(RtCallF(T, P))>>} ELSE {})
RtReturnTypes == {ty_void, ty_int, ty_struct_P}
RtPrograms ==
    UNION {{<<VarDecl("s", ty_struct_P, "SC_NONE", NoNode),
              FuncDef("f", T, IF P THEN <<[name |-> "p", type |-> ty_int]>>
                                   ELSE <<>>, b),
              FuncDef("main", ty_int, <<>>, m)>> :
                b \in RtBodies(T, P), m \in RtMainBodies(T, P)} :
           T \in RtReturnTypes, P \in BOOLEAN}

\* the emitted script is loaded: its top-level function declarations
RtLoad(out) ==
    LET fs == {k \in 1..Len(out) : out[k].sec = "func"}
    IN [name \in {out[k].name : k \in fs} |->
           out[CHOOSE k \in fs : out[k].name = name].ops]

\* JavaScript values
Undefined == <<"undefined">>
Num(n) == <<"number", n>>

RtFrame(fn, retptr) ==
    [fn |-> fn, pc |-> 1, saved_sp |-> 0, bp |-> 0, retptr |-> retptr,
     acc |-> Undefined, ret |-> Undefined, ret_set |-> FALSE,
     restored |-> "no"]
RtTop == rt_stack[Len(rt_stack)]
RtOp == rt_funcs[RtTop.fn][RtTop.pc]
RtAt(op) == rt_stack # <<>> /\ RtOp.op = op
\* the top frame changed by e and moved on by skip + 1 operations
RtStep(f, skip) ==
    [rt_stack EXCEPT ![Len(rt_stack)] = [f EXCEPT !.pc = @ + 1 + skip]]
RtKeep == UNCHANGED <<rt_funcs, rt_started, rt_exit, rt_returns, rtOther>>

\* the entry: process.exit(_main() | 0)
RT_Entry ==
    /\ cg_pc = "done"
    /\ ~rt_started
    /\ \E k \in 1..Len(codegen.out) : codegen.out[k].sec = "entry"
    /\ rt_funcs' = RtLoad(codegen.out)
    /\ rt_started' = TRUE
    /\ rt_stack' = <<RtFrame("main", Undefined)>>
    /\ UNCHANGED <<rt_sp, rt_exit, rt_returns, rtOther>>

\* const saved_sp = rt.mem.sp; const bp = rt.mem.sp;
RT_Enter ==
    /\ RtAt("enter")
    /\ rt_stack' = RtStep([RtTop EXCEPT !.saved_sp = rt_sp, !.bp = rt_sp], 0)
    /\ UNCHANGED rt_sp
    /\ RtKeep

\* rt.mem.<setter>(bp + off, p_NAME): a write into the frame being built
RT_StoreParam ==
    /\ RtAt("store_param")
    /\ rt_stack' = RtStep(RtTop, 0)
    /\ UNCHANGED rt_sp
    /\ RtKeep

\* rt.mem.sp -= frame
RT_Frame ==
    /\ RtAt("frame")
    /\ rt_sp' = rt_sp - RtOp.n
    /\ rt_stack' = RtStep(RtTop, 0)
    /\ RtKeep

\* a literal, or the address of an array or aggregate variable
RT_Lit ==
    /\ RtAt("lit")
    /\ rt_stack' = RtStep([RtTop EXCEPT !.acc = Num(RtOp.n)], 0)
    /\ UNCHANGED rt_sp
    /\ RtKeep
RT_Addr ==
    /\ RtAt("addr")
    /\ rt_stack' = RtStep([RtTop EXCEPT !.acc =
                               Num(IF RtOp.form = "bp" THEN RtTop.bp + RtOp.n
                                   ELSE RtOp.n)], 0)
    /\ UNCHANGED rt_sp
    /\ RtKeep

\* rt.NAME(...): a runtime function; rand() gives any value
RT_RtCall ==
    /\ RtAt("rtcall")
    /\ \E v \in {0, 1} : rt_stack' = RtStep([RtTop EXCEPT !.acc = Num(v)], 0)
    /\ UNCHANGED rt_sp
    /\ RtKeep

\* _NAME(args) or (_NAME(bp + off, args), bp + off): the callee starts; the
\* caller stays at the call until the callee returns
RT_Call ==
    /\ RtAt("call")
    /\ Len(rt_stack) < MaxDepth
    /\ rt_stack' = Append(rt_stack,
                          RtFrame(RtOp.f, IF RtOp.form = "sret"
                                          THEN Num(RtTop.bp + RtOp.n)
                                          ELSE Undefined))
    /\ UNCHANGED rt_sp
    /\ RtKeep

\* if (cond) stmt: stmt's operations are skipped when cond is 0
RT_Branch ==
    /\ RtAt("branch")
    /\ rt_stack' = RtStep(RtTop, IF RtTop.acc = Num(0) THEN RtOp.n ELSE 0)
    /\ UNCHANGED rt_sp
    /\ RtKeep

\* var __ret = <expr>
RT_SetRet ==
    /\ RtAt("set_ret")
    /\ rt_stack' = RtStep([RtTop EXCEPT !.ret = RtTop.acc, !.ret_set = TRUE], 0)
    /\ UNCHANGED rt_sp
    /\ RtKeep

\* rt.memcpy(p___retptr, <expr>, size)
RT_MemcpyRet ==
    /\ RtAt("memcpy_ret")
    /\ rt_stack' = RtStep([RtTop EXCEPT !.ret = RtTop.retptr, !.ret_set = TRUE], 0)
    /\ UNCHANGED rt_sp
    /\ RtKeep

\* rt.mem.sp = saved_sp
RT_Restore ==
    /\ RtAt("restore")
    /\ rt_sp' = RtTop.saved_sp
    /\ rt_stack' = RtStep([RtTop EXCEPT !.restored = RtOp.form], 0)
    /\ RtKeep

\* return __ret / return p___retptr / return 0 / return / the closing brace
RtReturned ==
    CASE RtOp.form = "scalar" -> RtTop.ret
      [] RtOp.form = "aggregate" -> RtTop.retptr
      [] RtOp.form = "zero" -> Num(0)
      [] OTHER -> Undefined
RT_Return ==
    /\ RtAt("return")
    /\ rt_returns' = rt_returns + 1
    /\ IF Len(rt_stack) = 1
       THEN /\ rt_stack' = <<>>
            /\ rt_exit' = RtReturned
       ELSE LET caller == rt_stack[Len(rt_stack) - 1]
                call == rt_funcs[caller.fn][caller.pc]
                value == IF call.form = "sret" THEN Num(caller.bp + call.n)
                         ELSE RtReturned
            IN /\ rt_stack' = [k \in 1..(Len(rt_stack) - 1) |->
                                  IF k = Len(rt_stack) - 1
                                  THEN [caller EXCEPT !.acc = value, !.pc = @ + 1]
                                  ELSE rt_stack[k]]
               /\ UNCHANGED rt_exit
    /\ UNCHANGED <<rt_funcs, rt_sp, rt_started, rtOther>>

RtIdle ==
    /\ rt_funcs = <<>>
    /\ rt_sp = RtStackTop
    /\ rt_stack = <<>>
    /\ rt_started = FALSE
    /\ rt_exit = Undefined
    /\ rt_returns = 0

(***************************************************************************)
(* C6: every exit path of a generated function restores the stack pointer: *)
(* each function returns with rt.mem.sp equal to the value it saved on     *)
(* entry, and once _main has returned to the entry, after all nested and   *)
(* recursive calls, rt.mem.sp is what it was before the outermost call.    *)
(***************************************************************************)
C6_SpRestored ==
    /\ [](rt_started /\ rt_stack = <<>> => rt_sp = RtStackTop)
    /\ [][RT_Return => rt_sp = RtTop.saved_sp /\ rt_sp' = RtTop.saved_sp]_vars
\* _main has returned after nested calls that moved the stack pointer
C6_Witness ==
    /\ rt_started /\ rt_stack = <<>>
    /\ rt_returns >= 3
    /\ rt_sp = RtStackTop
    /\ \E k \in 1..Len(rt_funcs["f"]) :
          rt_funcs["f"][k].op = "frame" /\ rt_funcs["f"][k].n > 0

(***************************************************************************)
(* C7: a return statement with a value restores rt.mem.sp only after its   *)
(* expression, every call in it included, has been evaluated and stored    *)
(* (in __ret, or copied to p___retptr for an aggregate), and the value the *)
(* caller receives is the stored one.                                      *)
(***************************************************************************)
C7_EvaluateBeforeRestore ==
    [][/\ (RT_Restore /\ RtOp.form \in {"scalar", "aggregate"})
            => /\ RtTop.ret_set
               /\ rt_funcs[RtTop.fn][RtTop.pc - 1].op \in {"set_ret", "memcpy_ret"}
       /\ (RT_Return /\ RtOp.form \in {"scalar", "aggregate"})
            => /\ RtTop.ret_set /\ RtTop.restored = RtOp.form
               /\ IF Len(rt_stack) = 1 THEN rt_exit' = RtTop.ret
                  ELSE rt_stack'[Len(rt_stack) - 1].acc = RtTop.ret]_vars
\* a nested call whose return expression was itself a call has stored the
\* result and then restored the stack pointer
C7_Witness ==
    /\ Len(rt_stack) >= 2
    /\ RtTop.restored \in {"scalar", "aggregate"}
    /\ RtTop.ret_set
    /\ RtOp.op = "return"
    /\ rt_funcs[RtTop.fn][RtTop.pc - 3].op = "call"
    /\ rt_sp = RtTop.saved_sp
    /\ rt_sp < RtStackTop

(***************************************************************************)
(* The driver: main() of main.c for a run without -E, one action per       *)
(* stage.  What a stage does to the program text is not modelled here,     *)
(* only how many errors it reports: every diagnostic of the preprocessor,  *)
(* lexer, parser and sema goes through error_at / error_noloc, which       *)
(* increment error_count; the code generator reports none.  No stage       *)
(* calls warn_at.                                                          *)
(***************************************************************************)
MaxStageErrors == 3

error_noloc(n) == n + 1
\* n diagnostics reported through error_at / error_noloc
Reported(count, n) == IF n = 0 THEN count ELSE error_at(count + n - 1)

\* the test at the stage boundaries: if (error_count > 0)
ErrorsFoundMany(count) == count > 1
ErrorsFound(count) == count > 0

MainEnvs ==
    [readable : BOOLEAN, preprocess_only : BOOLEAN,
     output : {"stdout", "file", "unwritable file"}]

MainExit(status) ==
    /\ main_pc' = "exit"
    /\ main_status' = status

\* read_file; on failure error_noloc and return 1
Main_ReadFile ==
    /\ main_pc = "start"
    /\ IF main_env.readable
       THEN /\ main_pc' = "read"
            /\ UNCHANGED <<main_status, main_reported, error_count>>
       ELSE /\ error_count' = error_noloc(error_count)
            /\ main_reported' = main_reported \cup {"read_file"}
            /\ MainExit(1)
    /\ UNCHANGED <<main_env, main_codegen_called, main_written, warn_count,
                   mainOther>>

\* preprocess: its result is never NULL and there is no test of error_count
\* after it.  One of the errors it reports may be pp_include's "cannot find
\* include file", after which pp_include returns and the loop goes on.
Main_Preprocess ==
    /\ main_pc = "read"
    /\ \E n \in 0..MaxStageErrors, include_not_found \in BOOLEAN :
          /\ include_not_found => n > 0
          /\ error_count' = Reported(error_count, n)
          /\ main_reported' =
                 main_reported
                     \cup (IF n > 0 THEN {"preprocess"} ELSE {})
                     \cup (IF include_not_found THEN {"include not found"} ELSE {})
    /\ main_pc' = "preprocessed"
    /\ UNCHANGED <<main_env, main_status, main_codegen_called, main_written,
                   warn_count, mainOther>>

\* -E: the preprocessed text is written and main returns.  fputs to the
\* NULL stream of an output file that cannot be opened is undefined.
Main_PreprocessOnly ==
    /\ main_pc = "preprocessed"
    /\ main_env.preprocess_only
    /\ IF main_env.output = "unwritable file"
       THEN \E status \in {0, 1, 139} : MainExit(status)
       ELSE MainExit(IF error_count > 0 THEN 1 ELSE 0)
    /\ UNCHANGED <<main_env, main_reported, main_codegen_called, main_written,
                   error_count, warn_count, mainOther>>

\* parser_parse, then the first test of error_count
Main_Parse ==
    /\ main_pc = "preprocessed"
    /\ ~main_env.preprocess_only
    /\ \E n \in 0..MaxStageErrors :
          /\ error_count' = Reported(error_count, n)
          /\ main_reported' = IF n > 0 THEN main_reported \cup {"parse"}
                              ELSE main_reported
    /\ IF ErrorsFound(error_count')
       THEN MainExit(1)
       ELSE main_pc' = "parsed" /\ UNCHANGED main_status
    /\ UNCHANGED <<main_env, main_codegen_called, main_written, warn_count,
                   mainOther>>

\* sema_check, then the second test of error_count
Main_Sema ==
    /\ main_pc = "parsed"
    /\ \E n \in 0..MaxStageErrors :
          /\ error_count' = Reported(error_count, n)
          /\ main_reported' = IF n > 0 THEN main_reported \cup {"sema"}
                              ELSE main_reported
    /\ IF ErrorsFound(error_count')
       THEN MainExit(1)
       ELSE main_pc' = "checked" /\ UNCHANGED main_status
    /\ UNCHANGED <<main_env, main_codegen_called, main_written, warn_count,
                   mainOther>>

\* codegen_init, codegen_generate, codegen_get_output
Main_Codegen ==
    /\ main_pc = "checked"
    /\ main_codegen_called' = TRUE
    /\ main_pc' = "generated"
    /\ UNCHANGED <<main_env, main_status, main_reported, main_written,
                   error_count, warn_count, mainOther>>

\* the output is opened and written; then the last test of error_count
Main_Write ==
    /\ main_pc = "generated"
    /\ IF main_env.output = "unwritable file"
       THEN MainExit(1) /\ UNCHANGED main_written
       ELSE /\ main_written' = TRUE
            /\ MainExit(IF ErrorsFound(error_count) THEN 1 ELSE 0)
    /\ UNCHANGED <<main_env, main_reported, main_codegen_called,
                   error_count, warn_count, mainOther>>

MainIdle ==
    /\ main_env = [readable |-> TRUE, preprocess_only |-> FALSE,
                   output |-> "stdout"]
    /\ main_pc = "start"
    /\ main_status = 0
    /\ main_reported = {}
    /\ main_codegen_called = FALSE
    /\ main_written = FALSE

(***************************************************************************)
(* C10: in a run without -E the code generator runs only when no error     *)
(* has been counted: once a stage has reported an error, codegen_generate  *)
(* is not called, nothing is written and main returns 1; and when such a   *)
(* run ends without having called codegen_generate, an error was counted   *)
(* (warnings play no part).                                                *)
(***************************************************************************)
C10_ErrorsStopCodegen ==
    ~main_env.preprocess_only =>
        /\ main_codegen_called => main_reported = {} /\ error_count = 0
        /\ main_written => main_codegen_called
        /\ (main_pc = "exit" /\ main_reported # {})
              => ~main_codegen_called /\ ~main_written /\ main_status = 1
        /\ (main_pc = "exit" /\ ~main_codegen_called) => error_count > 0
\* the preprocessor alone reported an error, the parser and sema none, and
\* main returned 1 at the first test without generating code
C10_Witness ==
    /\ ~main_env.preprocess_only
    /\ main_pc = "exit"
    /\ main_reported = {"preprocess"}
    /\ main_status = 1
    /\ ~main_codegen_called /\ ~main_written

(***************************************************************************)
(* C11: when the preprocessor has reported an #include that was not found  *)
(* (and has no built-in stub), the pipeline stops after preprocessing:     *)
(* parser_parse (which drives the lexer), sema_check and codegen_generate  *)
(* are not run, and main returns non-zero.                                 *)
(***************************************************************************)
C11_FatalIncludeStops ==
    /\ [][(Main_Parse \/ Main_Sema \/ Main_Codegen)
              => "include not found" \notin main_reported]_vars
    /\ [](main_pc = "exit" /\ "include not found" \in main_reported
              /\ ~main_env.preprocess_only => main_status # 0)

(***************************************************************************)
(* Arithmetic types and conversions (type.c).  The predefined types are    *)
(* distinct objects; type_usual_arith compares pointers only after the     *)
(* integer promotions, where the types left (int .. unsigned long long)    *)
(* differ as records too.                                                  *)
(***************************************************************************)
Unsigned(t) == [t EXCEPT !.is_unsigned = TRUE]
ty_bool == Unsigned(new_type("TY_BOOL", 1, 1))
ty_schar == new_type("TY_CHAR", 1, 1)
ty_uchar == Unsigned(new_type("TY_CHAR", 1, 1))
ty_ushort == Unsigned(new_type("TY_SHORT", 2, 2))
ty_uint == Unsigned(new_type("TY_INT", 4, 4))
ty_long == new_type("TY_LONG", 4, 4)
ty_ulong == Unsigned(new_type("TY_LONG", 4, 4))
ty_llong == new_type("TY_LLONG", 8, 8)
ty_ullong == Unsigned(new_type("TY_LLONG", 8, 8))
ty_float == new_type("TY_FLOAT", 4, 4)
ty_ldouble == new_type("TY_LDOUBLE", 8, 8)

PredefArith ==
    {ty_bool, ty_char, ty_schar, ty_uchar, ty_short, ty_ushort, ty_int,
     ty_uint, ty_long, ty_ulong, ty_llong, ty_ullong, ty_float, ty_double,
     ty_ldouble}

type_rank(t) ==
    CASE t.kind = "TY_BOOL" -> 1
      [] t.kind = "TY_CHAR" -> 2
      [] t.kind = "TY_SHORT" -> 3
      [] t.kind = "TY_INT" -> 4
      [] t.kind = "TY_LONG" -> 5
      [] t.kind = "TY_LLONG" -> 6
      [] t.kind = "TY_ENUM" -> 4
      [] OTHER -> 0

type_int_promote(t) == IF type_rank(t) < type_rank(ty_int) THEN ty_int ELSE t

\* A variant of type_usual_arith that keeps the signed type whenever its
\* rank is higher
type_usual_arith_signed_wins(at, bt) ==
    IF at.kind = "TY_LDOUBLE" \/ bt.kind = "TY_LDOUBLE" THEN ty_ldouble
    ELSE IF at.kind = "TY_DOUBLE" \/ bt.kind = "TY_DOUBLE" THEN ty_double
    ELSE IF at.kind = "TY_FLOAT" \/ bt.kind = "TY_FLOAT" THEN ty_float
    ELSE LET a == type_int_promote(at)
             b == type_int_promote(bt)
             u == IF a.is_unsigned THEN a ELSE b
             s == IF a.is_unsigned THEN b ELSE a
         IN  IF a = b THEN a
             ELSE IF a.is_unsigned = b.is_unsigned
             THEN (IF type_rank(a) >= type_rank(b) THEN a ELSE b)
             ELSE IF type_rank(u) >= type_rank(s) THEN u
             ELSE s
type_usual_arith(at, bt) ==
    IF at.kind = "TY_LDOUBLE" \/ bt.kind = "TY_LDOUBLE" THEN ty_ldouble
    ELSE IF at.kind = "TY_DOUBLE" \/ bt.kind = "TY_DOUBLE" THEN ty_double
    ELSE IF at.kind = "TY_FLOAT" \/ bt.kind = "TY_FLOAT" THEN ty_float
    ELSE LET a == type_int_promote(at)
             b == type_int_promote(bt)
             u == IF a.is_unsigned THEN a ELSE b
             s == IF a.is_unsigned THEN b ELSE a
         IN  IF a = b THEN a
             ELSE IF a.is_unsigned = b.is_unsigned
             THEN (IF type_rank(a) >= type_rank(b) THEN a ELSE b)
             ELSE IF type_rank(u) >= type_rank(s) THEN u
             ELSE IF s.size > u.size THEN s
             ELSE IF s.kind = "TY_INT" THEN ty_uint
             ELSE IF s.kind = "TY_LONG" THEN ty_ulong
             ELSE IF s.kind = "TY_LLONG" THEN ty_ullong
             ELSE ty_uint

\* one call type_usual_arith(a, b)
Type_UsualArith ==
    /\ pf_out = <<>>
    /\ Len(pf_in) = 2
    /\ pf_in[1] \in PredefArith /\ pf_in[2] \in PredefArith
    /\ pf_out' = <<type_usual_arith(pf_in[1], pf_in[2])>>
    /\ UNCHANGED <<pf_in, pfOther>>

PfIdle ==
    /\ pf_in = <<>>
    /\ pf_out = <<>>

(***************************************************************************)
(* C99 6.3.1.8 with 6.3.1.1, from the values the types hold under the      *)
(* 32-bit ABI.                                                             *)
(***************************************************************************)
RefFloatLevel(t) ==
    CASE t.kind = "TY_LDOUBLE" -> 3
      [] t.kind = "TY_DOUBLE" -> 2
      [] t.kind = "TY_FLOAT" -> 1
      [] OTHER -> 0
RefFloatOf(level) ==
    CASE level = 3 -> ty_ldouble [] level = 2 -> ty_double [] OTHER -> ty_float
\* value bits of an integer type
RefValueBits(t) ==
    IF t.kind = "TY_BOOL" THEN 1
    ELSE IF t.is_unsigned THEN 8 * t.size ELSE 8 * t.size - 1
RefConvRank(t) ==
    CHOOSE r \in 1..6 :
        t.kind = <<"TY_BOOL", "TY_CHAR", "TY_SHORT", "TY_INT", "TY_LONG",
                   "TY_LLONG">>[r]
\* 6.3.1.1: below int, int if it holds all values, else unsigned int
RefPromoted(t) ==
    IF RefConvRank(t) >= RefConvRank(ty_int) THEN t
    ELSE IF RefValueBits(t) <= RefValueBits(ty_int) THEN ty_int ELSE ty_uint
RefUnsignedOf(t) ==
    CHOOSE u \in PredefArith : u.kind = t.kind /\ u.is_unsigned
RefCommon(a, b) ==
    IF RefFloatLevel(a) > 0 \/ RefFloatLevel(b) > 0
    THEN RefFloatOf(Max(RefFloatLevel(a), RefFloatLevel(b)))
    ELSE LET p == RefPromoted(a)
             q == RefPromoted(b)
             hi == IF RefConvRank(p) >= RefConvRank(q) THEN p ELSE q
             u == IF p.is_unsigned THEN p ELSE q
             sg == IF p.is_unsigned THEN q ELSE p
         IN  IF p = q THEN p
             ELSE IF p.is_unsigned = q.is_unsigned THEN hi
             ELSE IF RefConvRank(u) >= RefConvRank(sg) THEN u
             ELSE IF RefValueBits(sg) >= RefValueBits(u) THEN sg
             ELSE RefUnsignedOf(sg)

\* C13: for every pair of predefined arithmetic types, type_usual_arith
\* gives the common type of C99 6.3.1.8 under the 32-bit ABI, and the same
\* type for the operands in the other order.
C13_UsualArith ==
    (pf_out # <<>> /\ Len(pf_in) = 2 /\ pf_in[1] \in PredefArith)
        => /\ pf_out[1] = RefCommon(pf_in[1], pf_in[2])
           /\ pf_out[1] = type_usual_arith(pf_in[2], pf_in[1])
\* unsigned int with long: long cannot hold every unsigned int, the result
\* is unsigned long
C13_Witness ==
    /\ pf_in = <<ty_uint, ty_long>>
    /\ pf_out = <<ty_ulong>>

(***************************************************************************)
(* Semantic analysis (sema.c) of the expressions the parser builds         *)
(* (parser.c).  An expression node is a record kind, type, lhs, rhs, name; *)
(* an absent child is NoNode and a null type is NullType; the operand of a *)
(* cast is its lhs.                                                        *)
(***************************************************************************)
MaxExprDepth == 2

NullType == [kind |-> "NULL"]
type_ptr_to(base) ==
    [kind |-> "TY_PTR", size |-> 4, align |-> 4, members |-> <<>>,
     is_unsigned |-> TRUE, base |-> base]
type_is_integer(t) ==
    t.kind \in {"TY_BOOL", "TY_CHAR", "TY_SHORT", "TY_INT", "TY_LONG",
                "TY_LLONG", "TY_ENUM"}
type_is_float(t) == t.kind \in {"TY_FLOAT", "TY_DOUBLE", "TY_LDOUBLE"}
type_is_arithmetic(t) ==
    type_is_integer(t) \/ type_is_float(t) \/ t.kind = "TY_COMPLEX"
type_is_ptr(t) == t.kind = "TY_PTR"
type_is_array(t) == t.kind \in {"TY_ARRAY", "TY_VLA"}
RECURSIVE type_is_compatible(_, _)
type_is_compatible(a, b) ==
    IF a.kind # b.kind THEN FALSE
    ELSE IF a.is_unsigned # b.is_unsigned THEN FALSE
    ELSE IF a.kind = "TY_PTR" THEN type_is_compatible(a.base, b.base)
    ELSE IF a.kind \in {"TY_STRUCT", "TY_UNION", "TY_ENUM"} THEN a = b
    ELSE TRUE
\* type_find_member: the Member found, NullMember for NULL; the name of an
\* unnamed member is ""
NullMember ==
    [name |-> "", type |-> NullType, bit_width |-> -1, idx |-> 0,
     offset |-> 0]
RECURSIVE FindMemberFrom(_, _, _)
FindMemberFrom(ms, k, name) ==
    IF k > Len(ms) THEN NullMember
    ELSE IF ms[k].name # "" /\ ms[k].name = name THEN ms[k]
    ELSE IF ms[k].name = "" /\ ms[k].type.kind \in {"TY_STRUCT", "TY_UNION"}
            /\ FindMemberFrom(ms[k].type.members, 1, name) # NullMember
    THEN FindMemberFrom(ms[k].type.members, 1, name)
    ELSE FindMemberFrom(ms, k + 1, name)
type_find_member(t, name) == FindMemberFrom(t.members, 1, name)

\* the file-scope declarations the expressions are parsed under:
\* int x; struct P s; int *p;   (u is not declared)
SemaGlobals ==
    [x |-> ty_int, s |-> ty_struct_P, p |-> type_ptr_to(ty_int)]
SemaLookup(name) ==
    IF name \in DOMAIN SemaGlobals THEN SemaGlobals[name] ELSE NullType

ExprNode(kind, type, lhs, rhs, name) ==
    [kind |-> kind, type |-> type, lhs |-> lhs, rhs |-> rhs, name |-> name]

\* parse_primary_expr: literals are typed, an identifier only when declared
parse_int_lit == ExprNode("ND_INT_LIT", ty_int, NoNode, NoNode, "")
parse_ident(name) ==
    ExprNode("ND_IDENT", SemaLookup(name), NoNode, NoNode, name)
\* parse_unary_expr: & * -
parse_unary(kind, operand) ==
    LET ot == operand.type
        ty == CASE kind = "ND_ADDR" ->
                      IF ot.kind # "NULL" THEN type_ptr_to(ot) ELSE NullType
                [] kind = "ND_DEREF" ->
                      IF ot.kind = "TY_PTR" THEN ot.base ELSE NullType
                [] OTHER -> ot
    IN ExprNode(kind, ty, operand, NoNode, "")
\* parse_postfix_expr: lhs . name
parse_member(lhs, name) ==
    ExprNode("ND_MEMBER",
             IF lhs.type.kind # "NULL" THEN type_find_member(lhs.type, name).type
             ELSE NullType,
             lhs, NoNode, name)
\* parse_binary_expr, one operator applied
parse_binary(kind, lhs, rhs) ==
    LET ty == IF lhs.type.kind = "NULL" \/ rhs.type.kind = "NULL"
              THEN NullType
              ELSE IF kind \in {"ND_LT", "ND_LE", "ND_GT", "ND_GE", "ND_EQ",
                                "ND_NE", "ND_AND", "ND_OR"} THEN ty_int
              ELSE IF type_is_ptr(lhs.type) THEN lhs.type
              ELSE IF type_is_ptr(rhs.type) THEN rhs.type
              ELSE type_usual_arith(lhs.type, rhs.type)
    IN ExprNode(kind, ty, lhs, rhs, "")

\* the expressions parsed, by nesting depth
RECURSIVE SemaExprs(_)
SemaExprs(d) ==
    IF d <= 1
    THEN {parse_int_lit} \cup {parse_ident(nm) : nm \in {"x", "s", "p", "u"}}
    ELSE LET E == SemaExprs(d - 1)
             L == SemaExprs(1)
         IN E \cup {parse_unary(k, e) : k \in {"ND_ADDR", "ND_DEREF", "ND_NEG"},
                                        e \in E}
              \cup {parse_member(e, nm) : e \in E, nm \in {"i", "z"}}
              \cup {parse_binary(k, e, l) : k \in {"ND_ADD", "ND_AND"},
                                            e \in E, l \in L}
\* the statements of int f(void) { ... }
SemaStmts ==
    LET E == SemaExprs(MaxExprDepth)
    IN {ExprStmt(e) : e \in E} \cup {Return(e) : e \in E}
         \cup {VarDecl("v", ty_int, "SC_NONE", e) : e \in E}

ensure_type(n) ==
    IF n.kind = "NULL" \/ n.type.kind # "NULL" THEN n
    ELSE [n EXCEPT !.type = ty_int]
decay_array(n) ==
    IF n.kind # "NULL" /\ n.type.kind = "TY_ARRAY"
    THEN [n EXCEPT !.type = type_ptr_to(n.type.base)] ELSE n
implicit_cast(n, target) ==
    IF n.kind = "NULL" \/ n.type.kind = "NULL" \/ target.kind = "NULL" THEN n
    ELSE IF type_is_compatible(n.type, target) THEN n
    ELSE ExprNode("ND_CAST", target, n, NoNode, "")

\* check_expr: the node afterwards and the errors reported
RECURSIVE check_expr(_)
check_expr(n) ==
    LET Res(m, e) == [n |-> m, errs |-> e]
    IN
    CASE n.kind = "NULL" -> Res(n, 0)
      [] n.kind = "ND_INT_LIT" -> Res(n, 0)
      [] n.kind = "ND_IDENT" ->
            IF n.type.kind # "NULL" THEN Res(n, 0)
            ELSE IF SemaLookup(n.name).kind # "NULL"
            THEN Res([n EXCEPT !.type = SemaLookup(n.name)], 0)
            ELSE Res([n EXCEPT !.type = ty_int], 1)
      [] n.kind \in {"ND_NEG", "ND_POS"} ->
            LET l == check_expr(n.lhs)
                lhs == ensure_type(l.n)
                bad == IF type_is_arithmetic(lhs.type) THEN 0 ELSE 1
            IN Res([n EXCEPT !.lhs = lhs,
                             !.type = type_int_promote(lhs.type)],
                   l.errs + bad)
      [] n.kind = "ND_DEREF" ->
            LET l == check_expr(n.lhs)
                lhs == ensure_type(l.n)
            IN IF ~type_is_ptr(lhs.type) /\ ~type_is_array(lhs.type)
               THEN Res([n EXCEPT !.lhs = lhs], l.errs + 1)
               ELSE Res([n EXCEPT !.lhs = lhs, !.type = lhs.type.base], l.errs)
      [] n.kind = "ND_ADDR" ->
            LET l == check_expr(n.lhs)
                lhs == ensure_type(l.n)
            IN Res([n EXCEPT !.lhs = lhs, !.type = type_ptr_to(lhs.type)],
                   l.errs)
      [] n.kind = "ND_ADD" ->
            LET l == check_expr(n.lhs)
                r == check_expr(n.rhs)
                lhs == decay_array(ensure_type(l.n))
                rhs == decay_array(ensure_type(r.n))
                m == [n EXCEPT !.lhs = lhs, !.rhs = rhs]
                bad == IF ~type_is_arithmetic(lhs.type)
                           \/ ~type_is_arithmetic(rhs.type) THEN 1 ELSE 0
            IN IF type_is_ptr(lhs.type) /\ type_is_integer(rhs.type)
               THEN Res([m EXCEPT !.type = lhs.type], l.errs + r.errs)
               ELSE IF type_is_integer(lhs.type) /\ type_is_ptr(rhs.type)
               THEN Res([m EXCEPT !.type = rhs.type], l.errs + r.errs)
               ELSE Res([m EXCEPT !.type = type_usual_arith(lhs.type, rhs.type)],
                        l.errs + r.errs + bad)
      [] n.kind = "ND_AND" ->
            LET l == check_expr(n.lhs)
                r == check_expr(n.rhs)
            IN Res([n EXCEPT !.lhs = l.n, !.rhs = r.n, !.type = ty_int],
                   l.errs + r.errs)
      [] n.kind = "ND_MEMBER" ->
            LET l == check_expr(n.lhs)
                lhs == ensure_type(l.n)
                m == [n EXCEPT !.lhs = lhs]
                mt == type_find_member(lhs.type, n.name).type
            IN IF lhs.type.kind \in {"TY_STRUCT", "TY_UNION"}
               THEN IF mt.kind # "NULL"
                    THEN Res([m EXCEPT !.type = mt], l.errs)
                    ELSE Res(m, l.errs + 1)
               ELSE Res(m, l.errs)
      [] n.kind = "ND_CAST" ->
            LET l == check_expr(n.lhs)
            IN Res([n EXCEPT !.lhs = l.n], l.errs)
      [] OTHER -> Res(n, 0)

\* check_node on the statement kinds; the function returns int
check_node(n) ==
    CASE n.kind = "ND_EXPR_STMT" ->
            LET e == check_expr(n.lhs)
            IN [n |-> [n EXCEPT !.lhs = e.n], errs |-> e.errs]
      [] n.kind = "ND_RETURN" ->
            LET e == check_expr(n.lhs)
            IN [n |-> [n EXCEPT !.lhs = implicit_cast(ensure_type(e.n), ty_int)],
                errs |-> e.errs]
      [] n.kind = "ND_VAR_DECL" ->
            LET e == check_expr(n.var_init)
            IN [n |-> [n EXCEPT !.var_init =
                                    implicit_cast(ensure_type(e.n), n.type)],
                errs |-> e.errs]
      [] OTHER -> [n |-> n, errs |-> 0]

SemaCheck(kind) ==
    /\ sema_pc = "parsed"
    /\ sema_stmt.kind = kind
    /\ sema_stmt' = check_node(sema_stmt).n
    /\ error_count' = Reported(error_count, check_node(sema_stmt).errs)
    /\ sema_pc' = "checked"
    /\ UNCHANGED <<warn_count, semaOther>>
Sema_ExprStmt == SemaCheck("ND_EXPR_STMT")
Sema_Return == SemaCheck("ND_RETURN")
Sema_VarDecl == SemaCheck("ND_VAR_DECL")

SemaIdle ==
    /\ sema_stmt = NoNode
    /\ sema_pc = "idle"

\* the expression of a statement
SemaTop(st) == IF st.kind = "ND_VAR_DECL" THEN st.var_init ELSE st.lhs
\* every node of the expression has a type
RECURSIVE AllTyped(_)
AllTyped(n) ==
    n.kind = "NULL"
        \/ (n.type.kind # "NULL" /\ AllTyped(n.lhs) /\ AllTyped(n.rhs))

\* C12: after sema_check every expression node reachable from the program
\* has a non-null type, also where an error was reported and in member
\* accesses whose left operand is not a struct or union.
C12_AllTypedAfterSema ==
    sema_pc = "checked" => AllTyped(SemaTop(sema_stmt))

(***************************************************************************)
(* Integer promotion on its own (type.c) and the type check_expr gives to  *)
(* unary + and - (sema.c).                                                 *)
(***************************************************************************)
ty_enum_E == new_type("TY_ENUM", 4, 4)
\* the types type_int_promote is called with
PromoteTypes == PredefArith \cup {type_ptr_to(ty_int), ty_enum_E}
\* +e and -e over a literal operand of each arithmetic type
UnaryNodes ==
    {ExprNode(k, NullType, ExprNode("ND_FLOAT_LIT", t, NoNode, NoNode, ""),
              NoNode, "") :
        k \in {"ND_NEG", "ND_POS"}, t \in PredefArith}

\* one call type_int_promote(arena, t)
Type_IntPromote ==
    /\ pf_out = <<>>
    /\ Len(pf_in) = 1
    /\ pf_in[1].kind \notin {"ND_NEG", "ND_POS"}
    /\ pf_out' = <<type_int_promote(pf_in[1])>>
    /\ UNCHANGED <<pf_in, pfOther>>
\* one call check_expr(s, n) on a unary + or -
Sema_Unary ==
    /\ pf_out = <<>>
    /\ Len(pf_in) = 1
    /\ pf_in[1].kind \in {"ND_NEG", "ND_POS"}
    /\ pf_out' = <<check_expr(pf_in[1]).n>>
    /\ UNCHANGED <<pf_in, pfOther>>

\* C99 6.3.1.1: the integer types of rank below int
RefBelowInt(t) == t.kind \in {"TY_BOOL", "TY_CHAR", "TY_SHORT"}

\* C27: type_int_promote maps bool, char and short, signed or unsigned, to
\* int and returns every other type unchanged (int and higher ranks, the
\* floating types, pointers); so unary + and - on a floating operand have
\* the operand's type.
C27_IntPromote ==
    (pf_out # <<>> /\ Len(pf_in) = 1)
        => IF pf_in[1].kind \in {"ND_NEG", "ND_POS"}
           THEN type_is_float(pf_in[1].lhs.type)
                    => pf_out[1].type = pf_in[1].lhs.type
           ELSE pf_out[1] = IF RefBelowInt(pf_in[1]) THEN ty_int ELSE pf_in[1]

(***************************************************************************)
(* The arena allocator (util.c).  The Arena is [blocks, current,           *)
(* default_block_size]: blocks holds the ArenaBlock list from head on, a   *)
(* block being [size, used]; current is an index into it, 0 for NULL.      *)
(* A pointer into the arena is [block, off].  size_t arithmetic wraps at   *)
(* SIZE_MOD; block sizes and requests are sizes of objects that fit in     *)
(* memory.                                                                 *)
(***************************************************************************)
MaxAllocs == 3
SIZE_MOD == 65536
\* default_block_size as passed to arena_init, 1 MB in main.c
ArenaBlockSizes == {16, 20, 32}
\* the sizes asked for: below, at and above default_block_size
ArenaSizes == {0, 1, 8, 9, 16, 17, 33, 40}

arenaOther == <<ppVars, diagVars, symVars, layVars, cgVars, rtVars, mainVars,
                pfVars, semaVars,
                lexVars,
                scriptVars,
                parseVars>>

arena_new_block(size) == [size |-> size, used |-> 0]
arena_init(default_block_size) ==
    [default_block_size |-> default_block_size,
     blocks |-> <<arena_new_block(default_block_size)>>,
     current |-> 1]
\* (size + 7) & ~(size_t)7
ArenaAlign8(size) ==
    ((size + 7) % SIZE_MOD) - (((size + 7) % SIZE_MOD) % 8)
\* A variant of arena_alloc that does not round the size up
arena_alloc_unrounded(a, size0) ==
    LET size == size0
        cur == a.blocks[a.current]
        grow == (cur.used + size) % SIZE_MOD > cur.size
        bsz == IF size > a.default_block_size THEN size
               ELSE a.default_block_size
        blocks == IF grow THEN Append(a.blocks, arena_new_block(bsz))
                  ELSE a.blocks
        current == IF grow THEN Len(blocks) ELSE a.current
    IN [arena |-> [a EXCEPT !.blocks =
                                [blocks EXCEPT ![current].used =
                                                   (@ + size) % SIZE_MOD],
                            !.current = current],
        p |-> [block |-> current, off |-> blocks[current].used]]
\* arena_alloc: the arena afterwards and the pointer returned
arena_alloc(a, size0) ==
    LET size == ArenaAlign8(size0)
        cur == a.blocks[a.current]
        grow == (cur.used + size) % SIZE_MOD > cur.size
        bsz == IF size > a.default_block_size THEN size
               ELSE a.default_block_size
        blocks == IF grow THEN Append(a.blocks, arena_new_block(bsz))
                  ELSE a.blocks
        current == IF grow THEN Len(blocks) ELSE a.current
    IN [arena |-> [a EXCEPT !.blocks =
                                [blocks EXCEPT ![current].used =
                                                   (@ + size) % SIZE_MOD],
                            !.current = current],
        p |-> [block |-> current, off |-> blocks[current].used]]

\* a returned region: where it starts, the size asked for and the bytes
\* the call has written
Region(p, size, zeroed) ==
    [block |-> p.block, off |-> p.off, size |-> size, zeroed |-> zeroed]

Arena_Alloc(size) ==
    /\ arena.current # 0
    /\ Len(ar_regions) < MaxAllocs
    /\ arena' = arena_alloc(arena, size).arena
    /\ ar_regions' = Append(ar_regions,
                            Region(arena_alloc(arena, size).p, size, 0))
    /\ UNCHANGED arenaOther
\* arena_calloc: arena_alloc, then memset(p, 0, size)
Arena_Calloc(size) ==
    /\ arena.current # 0
    /\ Len(ar_regions) < MaxAllocs
    /\ arena' = arena_alloc(arena, size).arena
    /\ ar_regions' = Append(ar_regions,
                            Region(arena_alloc(arena, size).p, size, size))
    /\ UNCHANGED arenaOther
\* arena_free: every block is freed, head and current become NULL
Arena_Free ==
    /\ arena.current # 0
    /\ arena' = [arena EXCEPT !.blocks = <<>>, !.current = 0]
    /\ UNCHANGED <<ar_regions, arenaOther>>

ArenaIdle ==
    /\ arena = [default_block_size |-> 0, blocks |-> <<>>, current |-> 0]
    /\ ar_regions = <<>>

\* the bytes of a region
RefBytes(r) == {<<r.block, b>> : b \in r.off..(r.off + r.size - 1)}

\* C23: until arena_free, every region returned by arena_alloc and
\* arena_calloc, for sizes below and above the default block size, lies
\* inside one block, starts at a multiple of 8, holds the size asked for
\* (and the bytes arena_calloc cleared) and shares no byte with another
\* region; and no block is released, resized or moved before arena_free.
C23_ArenaRegions ==
    /\ [](arena.current # 0 =>
            /\ \A i \in 1..Len(ar_regions) :
                  LET r == ar_regions[i]
                  IN /\ r.block \in 1..Len(arena.blocks)
                     /\ r.off % 8 = 0
                     /\ r.off + r.size <= arena.blocks[r.block].size
                     /\ r.off + r.size <= arena.blocks[r.block].used
                     /\ r.zeroed <= r.size
            /\ \A i, j \in 1..Len(ar_regions) :
                  i # j => RefBytes(ar_regions[i]) \cap RefBytes(ar_regions[j]) = {})
    /\ [][~Arena_Free =>
            \A k \in 1..Len(arena.blocks) :
                /\ k <= Len(arena'.blocks)
                /\ arena'.blocks[k].size = arena.blocks[k].size
                /\ arena'.blocks[k].used >= arena.blocks[k].used]_vars
\* a small region in the first block and, after it, a region larger than
\* the default block size in a block of its own
C23_Witness ==
    /\ arena.current # 0
    /\ \E i, j \in 1..Len(ar_regions) :
          /\ i < j
          /\ ar_regions[i].block = 1 /\ ar_regions[i].size = 9
          /\ ar_regions[j].block = 2
          /\ ar_regions[j].size > arena.default_block_size

(***************************************************************************)
(* Line markers: the text preprocess() hands to the lexer and the lexer's  *)
(* line counting (skip_whitespace in lexer.c).  The preprocessed text is   *)
(* a sequence of units [kind, file, line]: "nl" is a newline, "marker" is  *)
(* the text  # line "file"  up to but not including its newline, and       *)
(* "tok" is a token, which carries the file and the physical line it was   *)
(* written on.                                                             *)
(***************************************************************************)
MaxSrcLines == 3

lexOther == <<ppVars, diagVars, symVars, layVars, cgVars, rtVars, mainVars,
              pfVars, semaVars, arenaVars,
              scriptVars,
              parseVars>>

LxNl == [kind |-> "nl", file |-> "", line |-> 0]
LxMarker(file, line) == [kind |-> "marker", file |-> file, line |-> line]
LxTok(file, line) == [kind |-> "tok", file |-> file, line |-> line]

\* the lines of a source file: a line of tokens, an empty line, or
\*   #include "h.h"
LexLineKinds == {"text", "blank", "include"}
LexTopFiles == UNION {[1..n -> LexLineKinds] : n \in 1..MaxSrcLines}
LexHeaders == {<<"text">>, <<"text", "blank", "text">>}

\* preprocess(): the marker for line 1 of the file, then every line with
\* its newline; an #include line is replaced by the output for the header
\* (pp_include), a newline and a marker with pp.line and pp.filename
RECURSIVE PPMarkedLines(_, _, _, _)
PPMarkedLines(file, lines, k, header) ==
    IF k > Len(lines) THEN <<>>
    ELSE (CASE lines[k] = "text" -> <<LxTok(file, k), LxNl>>
            [] lines[k] = "blank" -> <<LxNl>>
            [] lines[k] = "include" ->
                  <<LxMarker("h.h", 1), LxNl>>
                      \o PPMarkedLines("h.h", header, 1, <<>>)
                      \o <<LxNl, LxMarker(file, k), LxNl, LxNl>>)
             \o PPMarkedLines(file, lines, k + 1, header)
PPMarked(file, lines, header) ==
    <<LxMarker(file, 1), LxNl>> \o PPMarkedLines(file, lines, 1, header)

LexRunning == lx_p <= Len(lx_src)
\* skip_whitespace: a newline
Lex_Newline ==
    /\ LexRunning
    /\ lx_src[lx_p].kind = "nl"
    /\ lx_p' = lx_p + 1
    /\ lx_line' = lx_line + 1
    /\ lx_at_bol' = TRUE
    /\ UNCHANGED <<lx_src, lx_filename, lx_toks, lexOther>>
\* skip_whitespace: # linenum "filename" at the beginning of a line; the
\* rest of the line is skipped up to its newline
Lex_LineMarker ==
    /\ LexRunning
    /\ lx_src[lx_p].kind = "marker"
    /\ lx_at_bol
    /\ lx_p' = lx_p + 1
    /\ lx_filename' = lx_src[lx_p].file
    /\ lx_line' = lx_src[lx_p].line
    /\ UNCHANGED <<lx_src, lx_at_bol, lx_toks, lexOther>>
\* lexer_next: a token, with loc = make_loc(l)
Lex_Token ==
    /\ LexRunning
    /\ lx_src[lx_p].kind = "tok"
    /\ lx_toks' = Append(lx_toks, [loc |-> [filename |-> lx_filename,
                                           line |-> lx_line],
                                   written |-> [filename |-> lx_src[lx_p].file,
                                                line |-> lx_src[lx_p].line]])
    /\ lx_p' = lx_p + 1
    /\ lx_at_bol' = FALSE
    /\ UNCHANGED <<lx_src, lx_line, lx_filename, lexOther>>

LexIdle ==
    /\ lx_src = <<>>
    /\ lx_p = 1
    /\ lx_line = 1
    /\ lx_filename = ""
    /\ lx_at_bol = TRUE
    /\ lx_toks = <<>>

\* C21: for every token the file and line the lexer records are the file
\* and the physical line the token is written on: the line after a marker
\*   # N "file"   is line N of file, the first line of the top-level file
\* is line 1 and the line after an #include on line k is line k+1.
C21_LineMarkers ==
    \A i \in 1..Len(lx_toks) : lx_toks[i].loc = lx_toks[i].written

(***************************************************************************)
(* Anonymous struct/union members: member lists nested in member lists,    *)
(* with fields of type char and int that have distinct names.              *)
(***************************************************************************)
\* the members declared so far in a member list: its fields, its anonymous
\* members and their fields
LayFieldCount(head) ==
    LET n[k \in 0..Len(head)] ==
            IF k = 0 THEN 0
            ELSE n[k - 1] + IF LayIsAnon(head[k])
                            THEN 1 + Len(head[k].type.members) ELSE 1
    IN n[Len(head)]
\* the members declared so far in the whole declaration, the anonymous
\* members that are still open included
LayFieldTotal ==
    LET n[k \in 0..Len(lay_stack)] ==
            IF k = 0 THEN 0 ELSE n[k - 1] + LayFieldCount(lay_stack[k].head)
    IN n[Len(lay_stack)] + Len(lay_stack) + LayFieldCount(lay_head)
\* the fields declared so far in a member list, those of its anonymous
\* members included
LayNamedCount(head) ==
    LET n[k \in 0..Len(head)] ==
            IF k = 0 THEN 0
            ELSE n[k - 1] + IF LayIsAnon(head[k])
                            THEN Len(head[k].type.members) ELSE 1
    IN n[Len(head)]
LayNamedTotal ==
    LET n[k \in 0..Len(lay_stack)] ==
            IF k = 0 THEN 0 ELSE n[k - 1] + LayNamedCount(lay_stack[k].head)
    IN n[Len(lay_stack)] + LayNamedCount(lay_head)
\* the name of the next field: the nesting depth it is declared at and its
\* number among the fields of the whole declaration, so that no two fields
\* of a declaration have the same name
LayFieldName ==
    "f" \o ToString(Len(lay_stack)) \o "_" \o ToString(LayNamedTotal)

\* a field declared in the member list that is open
Lay_Field(mtype) ==
    /\ LayFieldTotal < MaxFields
    /\ Lay_Declarator(LayFieldName, mtype, -1)

\* the type a closing brace has just completed
LayClosed ==
    IF lay_stack = <<>> THEN lay_ty' ELSE lay_head'[Len(lay_head')].type

MaxScopeStmts == 3

For(init, body) ==
    [kind |-> "ND_FOR", for_init |-> init, for_cond |-> NoNode,
     for_inc |-> NoNode, for_body |-> body]
ScopeDecl == VarDecl("x", ty_int, "SC_NONE", IntLit(1))
ScopeStatic == VarDecl("x", ty_int, "SC_STATIC", IntLit(1))
ScopeUse == ExprStmt(Ident("x", ty_int))
ScopeStmts ==
    {ScopeDecl, ScopeStatic, ScopeUse,
     Block(<<ScopeDecl, ScopeUse>>), Block(<<ScopeStatic, ScopeUse>>),
     For(ScopeDecl, ScopeUse)}
ScopeBodies(n) == UNION {[1..k -> ScopeStmts] : k \in 0..n}
ScopeParam == [name |-> "x", type |-> ty_int]

\* parser.c 1090-1118, 1200-1217, 1260-1305: what the parser does to the
\* symbol table for a statement: a declaration defines x in the current
\* scope, a block and a for-statement open a scope and close it, a use is
\* looked up.  decl names the declaration behind every symbol-table entry:
\* the position of its variable in the generator's locals or globals.
RECURSIVE ParseScopes(_, _)
ParseScopesOf(acc, n) ==
    LET Each(a, ss) ==
            LET RECURSIVE Go(_, _)
                Go(b, k) == IF k > Len(ss) THEN b
                            ELSE Go(ParseScopes(b, ss[k]), k + 1)
            IN Go(a, 1)
        Enter(a) == [a EXCEPT !.st = symtab_enter_scope(a.st)]
        Leave(a) == [a EXCEPT !.st = symtab_leave_scope(a.st)]
    IN CASE n.kind = "ND_VAR_DECL" ->
               LET d == symtab_define(acc.st, n.var_name, "SYM_VAR", n.type)
                   id == IF acc.st.current = 1
                         THEN [is_local |-> FALSE, k |-> acc.nfile + 1]
                         ELSE IF n.var_sc = "SC_STATIC"
                         THEN [is_local |-> FALSE,
                               k |-> acc.filevars + acc.nstatic + 1]
                         ELSE [is_local |-> TRUE, k |-> acc.nl + 1]
               IN [acc EXCEPT
                     !.st = d.st,
                     !.ok = @ /\ ~d.err,
                     !.decl = (<<acc.st.current, n.var_name>> :> id) @@ @,
                     !.nfile = IF acc.st.current = 1 THEN @ + 1 ELSE @,
                     !.nstatic = IF acc.st.current # 1
                                      /\ n.var_sc = "SC_STATIC"
                                 THEN @ + 1 ELSE @,
                     !.nl = IF id.is_local THEN @ + 1 ELSE @]
         [] n.kind = "ND_EXPR_STMT" ->
               LET s == symtab_lookup(acc.st.scopes, acc.st.current, n.lhs.name)
               IN IF s = 0 THEN [acc EXCEPT !.ok = FALSE]
                  ELSE [acc EXCEPT
                          !.want = Append(@, acc.decl[<<s, n.lhs.name>>])]
         [] n.kind = "ND_BLOCK" -> Leave(Each(Enter(acc), n.body))
         [] n.kind = "ND_FOR" ->
               Leave(ParseScopes(ParseScopes(Enter(acc), n.for_init),
                                 n.for_body))
         [] n.kind = "ND_FUNC_DEF" ->
               LET a0 == [acc EXCEPT !.st = symtab_enter_func_scope(acc.st),
                                     !.nl = 0, !.want = <<>>]
                   ps == [k \in 1..Len(n.type.params) |->
                             VarDecl(n.type.params[k].name,
                                     n.type.params[k].type, "SC_NONE", NoNode)]
               IN Leave(ParseScopes(Each(a0, ps), n.func_body))
         [] OTHER -> acc
\* (the walk so far is evaluated once, then the statement is applied)
ParseScopes(acc, n) ==
    CHOOSE r \in {ParseScopesOf(a, n) : a \in {acc}} : TRUE

\* the symbol table walk over the first i top-level declarations.  The
\* generator collects the file-scope variables of the whole unit before
\* any function (codegen.c 1247-1251), so static locals are numbered after
\* all of them.
ScopeFileVars(prog) ==
    Len(SelectSeq(prog, LAMBDA n : n.kind = "ND_VAR_DECL"))
ParseUnit(prog, i) ==
    LET RECURSIVE Go(_, _)
        Go(acc, k) == IF k > i THEN acc
                      ELSE Go(ParseScopes(acc, prog[k]), k + 1)
    IN Go([st |-> symtab_init, ok |-> TRUE, decl |-> <<>>, nl |-> 0,
           nfile |-> 0, nstatic |-> 0, filevars |-> ScopeFileVars(prog),
           want |-> <<>>], 1)

\* translation units the parser accepts: x is declared once per scope and
\* every use of x has a declaration in scope
ScopePrograms ==
    {p \in {g \o <<FuncDef("f", ty_int, ps, fb), FuncDef("main", ty_int, <<>>, mb)>> :
               g \in {<<>>, <<VarDecl("x", ty_int, "SC_NONE", NoNode)>>},
               ps \in {<<>>, <<ScopeParam>>},
               fb \in ScopeBodies(1),
               mb \in ScopeBodies(MaxScopeStmts)} :
        ParseUnit(p, Len(p)).ok}

\* the storage the uses of x in the function generated last address, in
\* the order of the uses
ScopeGot ==
    LET item == codegen.out[Len(codegen.out)]
        loads == SelectSeq(item.ops, LAMBDA o : o.op = "load")
    IN [k \in 1..Len(loads) |->
           [is_local |-> loads[k].form = "bp", addr |-> loads[k].n]]
\* the storage of the declarations the symbol table binds those uses to
ScopeWant ==
    LET want == ParseUnit(cg_prog, cg_i - 1).want
        Var(id) == IF id.is_local THEN codegen.locals[id.k]
                   ELSE codegen.globals[id.k]
    IN [k \in 1..Len(want) |->
           [is_local |-> want[k].is_local, addr |-> Var(want[k]).addr]]
ScopeFuncDone ==
    /\ cg_pc = "funcs"
    /\ cg_i > 1
    /\ cg_prog[cg_i - 1].kind = "ND_FUNC_DEF"

\* C24: every use of x in a generated function addresses the storage of
\* the declaration that the symbol table binds the use to at parse time:
\* after a nested block or for-statement that declares x the outer x is
\* addressed again, and a static local x of another function never is.
C24_ScopedResolution ==
    ScopeFuncDone => ScopeGot = ScopeWant

(***************************************************************************)
(* Enumerator values (parser.c 330-348).  An enum definition is a list of  *)
(* enumerators A, B, C, each with or without an initializer; pf_out is the *)
(* running value val and the enumeration constants defined so far.         *)
(***************************************************************************)
MaxEnumerators == 3

node_unary(kind, lhs) == [kind |-> kind, lhs |-> lhs]
node_binary(kind, lhs, rhs) == [kind |-> kind, lhs |-> lhs, rhs |-> rhs]

\* parser.c 31-68 try_eval_const on literals and on the operators of the
\* initializers below; every other node is not a constant
RECURSIVE try_eval_const(_)
try_eval_const(n) ==
    LET no == [ok |-> FALSE, v |-> 0]
        Yes(v) == [ok |-> TRUE, v |-> v]
        l == try_eval_const(n.lhs)
        r == try_eval_const(n.rhs)
        Both(v) == IF l.ok /\ r.ok THEN Yes(v) ELSE no
        Bool(b) == IF b THEN 1 ELSE 0
    IN CASE n.kind = "ND_INT_LIT" -> Yes(n.ival)
         [] n.kind = "ND_NEG" -> IF l.ok THEN Yes(-l.v) ELSE no
         [] n.kind = "ND_NOT" -> IF l.ok THEN Yes(Bool(l.v = 0)) ELSE no
         [] n.kind = "ND_ADD" -> Both(l.v + r.v)
         [] n.kind = "ND_SUB" -> Both(l.v - r.v)
         [] n.kind = "ND_MUL" -> Both(l.v * r.v)
         [] n.kind = "ND_LSHIFT" -> Both(l.v * 2 ^ r.v)
         [] n.kind = "ND_LT" -> Both(Bool(l.v < r.v))
         [] n.kind = "ND_EQ" -> Both(Bool(l.v = r.v))
         [] OTHER -> no

\* the initializers tried:  5,  -1,  1 << 2,  and, naming the enumerator
\* A:  A,  A + 1,  A * 2 - 1
EnumPlain ==
    {IntLit(5),
     node_unary("ND_NEG", IntLit(1)),
     node_binary("ND_LSHIFT", IntLit(1), IntLit(2))}
EnumNaming ==
    {Ident("A", ty_int),
     node_binary("ND_ADD", Ident("A", ty_int), IntLit(1)),
     node_binary("ND_SUB", node_binary("ND_MUL", Ident("A", ty_int), IntLit(2)),
                 IntLit(1))}
EnumInits == EnumPlain \cup EnumNaming
EnumName == <<"A", "B", "C", "D">>
\* the definitions tried: A is only named after it is defined
EnumDefs ==
    {d \in UNION {[1..n -> {NoNode} \cup EnumInits] : n \in 1..MaxEnumerators} :
        d[1] \notin EnumNaming}

\* parser.c 643-656: an identifier that names an enumeration constant is
\* parsed as an integer literal of its value
RECURSIVE parse_cond_expr(_, _)
parse_cond_expr(e, consts) ==
    CASE e.kind = "ND_IDENT" ->
            LET ks == {k \in 1..Len(consts) : consts[k].name = e.name}
            IN IF ks = {} THEN e
               ELSE IntLit(consts[CHOOSE k \in ks : TRUE].enum_val)
      [] e.kind \in {"ND_INT_LIT", "NULL"} -> e
      [] e.kind \in {"ND_NEG", "ND_NOT"} ->
            node_unary(e.kind, parse_cond_expr(e.lhs, consts))
      [] OTHER ->
            node_binary(e.kind, parse_cond_expr(e.lhs, consts),
                        parse_cond_expr(e.rhs, consts))

\* parser.c 331-347: one iteration of the enumerator loop
Parse_Enumerator ==
    /\ Len(pf_out.consts) < Len(pf_in)
    /\ LET k == Len(pf_out.consts) + 1
           e == parse_cond_expr(pf_in[k], pf_out.consts)
           val == IF pf_in[k].kind # "NULL" /\ e.kind = "ND_INT_LIT"
                  THEN e.ival ELSE pf_out.val
       IN pf_out' = [val |-> val + 1,
                     consts |-> Append(pf_out.consts,
                                       [name |-> EnumName[k], enum_val |-> val])]
    /\ UNCHANGED <<pf_in, pfOther>>

\* C26: an enumerator with an initializer that try_eval_const can fold
\* has the folded value, and an enumerator without an initializer has the
\* value of the previous enumerator plus one, 0 if it is the first
C26_EnumValues ==
    \A k \in 1..Len(pf_out.consts) :
        LET cs == pf_out.consts
            c == try_eval_const(parse_cond_expr(pf_in[k], SubSeq(cs, 1, k - 1)))
        IN IF pf_in[k].kind = "NULL"
           THEN cs[k].enum_val = IF k = 1 THEN 0 ELSE cs[k - 1].enum_val + 1
           ELSE c.ok => cs[k].enum_val = c.v

(***************************************************************************)
(* Static locals at run time.  The emitted script runs from top to bottom: *)
(* reserveGlobals, the function declarations, the function-pointer         *)
(* registrations, the data section, and last the entry that calls _main.   *)
(* rt_writes records every write to rt.mem: the address, the value and the *)
(* function that was running ("" for a top-level statement).               *)
(***************************************************************************)
MaxCalls == 3

StaticNames == {"n", "m"}
\* the value of the initializer of the variable at addr
InitValue(addr) == <<"initializer", addr>>
Write(addr, value, fn) == [addr |-> addr, value |-> value, fn |-> fn]
WritesTo(addr) == SelectSeq(rt_writes, LAMBDA w : w.addr = addr)
\* rt.mem.read: the value written last, 0 in memory never written
RtRead(addr) ==
    IF WritesTo(addr) = <<>> THEN Num(0)
    ELSE WritesTo(addr)[Len(WritesTo(addr))].value

ScriptIdle ==
    /\ rt_top = 1
    /\ rt_writes = <<>>

\* int f(void) with a static local n, with or without an initializer and
\* with or without an automatic local next to it, called up to MaxCalls
\* times by main, which may have a static local m of its own
StaticBodies ==
    {<<VarDecl("n", ty_int, "SC_STATIC", IntLit(1)), Return(Ident("n", ty_int))>>,
     <<VarDecl("n", ty_int, "SC_STATIC", NoNode), Return(Ident("n", ty_int))>>,
     <<VarDecl("c", ty_char, "SC_NONE", IntLit(1)),
       VarDecl("n", ty_int, "SC_STATIC", IntLit(1)),
       Return(Ident("n", ty_int))>>}
StaticCallF == ExprStmt(Call("f", NoNode, ty_int))
StaticMains ==
    UNION {{[k \in 1..c |-> StaticCallF],
            <<VarDecl("m", ty_int, "SC_STATIC", IntLit(1))>>
                \o [k \in 1..c |-> StaticCallF],
            <<VarDecl("m", ty_int, "SC_STATIC", IntLit(1))>>
                \o [k \in 1..c |-> StaticCallF]
                \o <<Return(Ident("m", ty_int))>>} :
           c \in 1..MaxCalls}
StaticPrograms ==
    {g \o <<FuncDef("f", ty_int, <<>>, b), FuncDef("main", ty_int, <<>>, m)>> :
        g \in {<<>>, <<VarDecl("g", ty_char, "SC_NONE", IntLit(1))>>},
        b \in StaticBodies, m \in StaticMains}

\* a top-level statement of the script other than the entry: a global
\* initializer writes its variable, a declaration writes nothing
RT_TopLevel ==
    /\ cg_pc = "done"
    /\ ~rt_started
    /\ rt_top <= Len(codegen.out)
    /\ codegen.out[rt_top].sec # "entry"
    /\ rt_writes' =
          IF codegen.out[rt_top].sec = "init"
          THEN Append(rt_writes, Write(codegen.out[rt_top].n,
                                       InitValue(codegen.out[rt_top].n), ""))
          ELSE rt_writes
    /\ rt_top' = rt_top + 1
    /\ UNCHANGED <<ppVars, diagVars, symVars, layVars, cgVars, rtVars,
                   mainVars, pfVars, semaVars, arenaVars, lexVars,
                   parseVars>>

\* the entry is reached
RT_Start ==
    /\ rt_top <= Len(codegen.out)
    /\ codegen.out[rt_top].sec = "entry"
    /\ RT_Entry

\* rt.mem.<getter>(bp + off) or rt.mem.<getter>(addr)
RT_Load ==
    /\ RtAt("load")
    /\ rt_stack' = RtStep([RtTop EXCEPT !.acc =
                               RtRead(IF RtOp.form = "bp" THEN RtTop.bp + RtOp.n
                                      ELSE RtOp.n)], 0)
    /\ UNCHANGED rt_sp
    /\ RtKeep

\* rt.mem.<setter>(bp + off, <expr>), or the same on an absolute address
RT_Store ==
    /\ RtAt("store")
    /\ rt_writes' = Append(rt_writes,
                           Write(IF RtOp.form = "abs" THEN RtOp.n
                                 ELSE RtTop.bp + RtOp.n, RtTop.acc, RtTop.fn))
    /\ rt_stack' = RtStep(RtTop, 0)
    /\ UNCHANGED <<rt_top, rt_funcs, rt_sp, rt_started, rt_exit, rt_returns,
                   ppVars, diagVars, symVars, layVars, cgVars, mainVars,
                   pfVars, semaVars, arenaVars, lexVars, parseVars>>

\* the static locals of the unit, as declared and as the generator has them
RECURSIVE StaticDeclsIn(_)
StaticDeclsIn(ss) ==
    IF ss = <<>> THEN {}
    ELSE (IF ss[1].kind = "ND_VAR_DECL" /\ ss[1].var_sc = "SC_STATIC"
          THEN {ss[1]} ELSE {}) \cup StaticDeclsIn(Tail(ss))
StaticDecls ==
    UNION {StaticDeclsIn(cg_prog[k].func_body.body) :
              k \in {j \in 1..Len(cg_prog) : cg_prog[j].kind = "ND_FUNC_DEF"}}
StaticSlots(d) ==
    {k \in 1..Len(codegen.globals) : codegen.globals[k].name = d.var_name}
StaticAddr(d) == codegen.globals[CHOOSE k \in StaticSlots(d) : TRUE].addr
StaticInits(d) ==
    {i \in 1..Len(codegen.out) :
        codegen.out[i].sec = "init" /\ codegen.out[i].n = StaticAddr(d)}

\* after generation: one global slot, no stack slot, and the initializer,
\* if there is one, once in the script, before the entry and in no function
StaticGenerated ==
    cg_pc = "done" =>
        \A d \in StaticDecls :
            /\ Cardinality(StaticSlots(d)) = 1
            /\ Cardinality(StaticInits(d)) =
                   IF d.var_init.kind # "NULL" THEN 1 ELSE 0
            /\ \A i \in StaticInits(d) : \A j \in 1..Len(codegen.out) :
                   codegen.out[j].sec = "entry" => i < j
\* no function ever has a static local in its frame
StaticNotInFrame ==
    \A k \in 1..Len(codegen.locals) : codegen.locals[k].name \notin StaticNames
\* once main is entered, the only write to a static local that has ever
\* happened is the one of its initializer, at top level
StaticInitializedOnce ==
    rt_started =>
        \A d \in StaticDecls :
            WritesTo(StaticAddr(d)) =
                IF d.var_init.kind # "NULL"
                THEN <<Write(StaticAddr(d), InitValue(StaticAddr(d)), "")>>
                ELSE <<>>
\* every read of a static local in any call gives the value of its
\* initializer, 0 without one
StaticPersists ==
    (RT_Load /\ RtOp.form = "abs") =>
        \E d \in StaticDecls :
            /\ RtOp.n = StaticAddr(d)
            /\ rt_stack'[Len(rt_stack)].acc =
                   IF d.var_init.kind # "NULL" THEN InitValue(RtOp.n)
                   ELSE Num(0)

\* C28: a static local has one global slot and no stack slot; its
\* initializer is emitted once, in the data section, and has run exactly
\* once when main is entered; no call of the enclosing function, however
\* many there are, writes the variable again, so every call reads the
\* same value.
C28_StaticLocals ==
    /\ [](StaticGenerated /\ StaticNotInFrame /\ StaticInitializedOnce)
    /\ [][StaticPersists]_vars
\* main has returned after MaxCalls calls of f, whose automatic local was
\* written in each call and whose static local n was written once
C28_Witness ==
    /\ rt_started
    /\ rt_stack = <<>>
    /\ rt_returns = MaxCalls + 1
    /\ \E d \in StaticDecls :
          /\ d.var_name = "n"
          /\ Len(WritesTo(StaticAddr(d))) = 1
    /\ Len(SelectSeq(rt_writes, LAMBDA w : w.fn = "f")) = MaxCalls

\* ---------------------------------------------------------------------
\* The parser's loops (parser.c, lexer.c lexer_expect): termination
\* ---------------------------------------------------------------------

\* the length up to which every token stream is parsed
MaxTokens == 3

\* the token kinds: TK_INT, TK_STRUCT, TK_ENUM, TK_IDENT, TK_INT_LIT and
\* the punctuators
TokenKinds == {"int", "struct", "enum", "id", "num",
               "{", "}", "(", ")", ";", ",", "="}

\* well-formed translation units
ParseSeeds ==
    {<<"int", "id", "(", "int", "id", ")", "{",
         "id", "=", "id", "(", "num", ",", "id", ")", ";", "}">>,
     <<"struct", "id", "{", "int", "id", ",", "id", ";", "}",
         "id", "=", "{", "num", ",", "num", "}", ";">>,
     <<"enum", "{", "id", "=", "num", ",", "id", "}", ";",
         "int", "(", "id", ")", "=", "(", "int", ")", "(", "id", ")", ";">>}

\* the streams one replaced, removed or cut token away from s
EditsOf(s) ==
    {[s EXCEPT ![i] = k] : i \in 1..Len(s), k \in TokenKinds}
    \cup {SubSeq(s, 1, i - 1) \o SubSeq(s, i + 1, Len(s)) : i \in 1..Len(s)}
    \cup {SubSeq(s, 1, i) : i \in 0..Len(s)}

\* the token streams parsed: every short one, and the well-formed units
\* whole or with one token damaged
ParseStreams ==
    UNION {[1..n -> TokenKinds] : n \in 0..MaxTokens}
    \cup ParseSeeds \cup UNION {EditsOf(s) : s \in ParseSeeds}

ParseIdle ==
    /\ ps_toks = <<>>
    /\ ps_pos = 1
    /\ ps_stack = <<>>
    /\ ps_ret = [name |-> FALSE, func |-> FALSE, cast |-> FALSE]

\* what the parser never touches
parseOther == <<ppVars, warn_count, symVars, layVars, cgVars, rtVars, mainVars,
                pfVars, semaVars, arenaVars, lexVars, scriptVars>>

\* the kind of the token at index p: TK_EOF after the last one
TokAt(p) == IF p <= Len(ps_toks) THEN ps_toks[p] ELSE "EOF"
\* TOK: p->lexer->cur.kind
TOK == TokAt(ps_pos)
\* lexer_next: the index of the next token; at the end of the input
\* lex_token returns TK_EOF again
lexer_next(p) == IF p <= Len(ps_toks) THEN p + 1 ELSE p
\* lexer_peek: the kind of the token after the current one
PEEK == TokAt(lexer_next(ps_pos))

\* is_type_spec_qual, is_type_name: no typedef name is declared
is_type_name(k) == k \in {"int", "struct", "enum"}

\* a call in progress: where it continues (pc), the position at which the
\* previous iteration of its loop began (at, -1 before the first), the
\* token lexer_expect wants (kind), and the locals of parse_declarator
Frame(pc) ==
    [pc |-> pc, at |-> -1, kind |-> "", name |-> FALSE, func |-> FALSE,
     abs |-> FALSE]
Iter(pc, at) == [Frame(pc) EXCEPT !.at = at]
Expect(kind) == [Frame("expect") EXCEPT !.kind = kind]
Top == ps_stack[Len(ps_stack)]

\* one step of the running call: the current token index after it, the
\* frames that replace the running one (the last runs next), the errors
\* reported and the value returned
Step(pos, push) == [pos |-> pos, push |-> push, err |-> 0, ret |-> ps_ret]
Leave == Step(ps_pos, <<>>)
Error(s) == [s EXCEPT !.err = 1]
Do(s) ==
    /\ ps_pos' = s.pos
    /\ ps_stack' = SubSeq(ps_stack, 1, Len(ps_stack) - 1) \o s.push
    /\ error_count' = IF s.err = 1 THEN error_at(error_count) ELSE error_count
    /\ ps_ret' = s.ret
    /\ UNCHANGED <<ps_toks, parseOther>>
Running(pcs) == ps_stack # <<>> /\ Top.pc \in pcs

\* lexer_expect without the lexer_next after a mismatch
lexer_expect_stuck(kind) ==
    IF TOK # kind THEN Error(Leave) ELSE Step(lexer_next(ps_pos), <<>>)
\* lexer.c lexer_expect: report a mismatch, then lexer_next either way
lexer_expect(kind) ==
    IF TOK # kind
    THEN Error(Step(lexer_next(ps_pos), <<>>))
    ELSE Step(lexer_next(ps_pos), <<>>)

\* EXPECT(kind)
Lexer_Expect ==
    /\ Running({"expect"})
    /\ Do(lexer_expect(Top.kind))

\* parser_parse: while (TOK.kind != TK_EOF) parse_declaration
Parser_Parse ==
    /\ Running({"program"})
    /\ Do(IF TOK = "EOF" THEN Leave
          ELSE Step(ps_pos, <<Iter("program", ps_pos), Frame("decl")>>))

\* parse_declaration: specifiers, then declarators separated by commas,
\* a function body or initializers, then ';'
Parse_Declaration ==
    /\ Running({"decl", "decl_base", "decl_iter", "decl_name", "decl_comma"})
    /\ Do(CASE Top.pc = "decl" ->
                 Step(ps_pos, <<Frame("decl_base"), Frame("spec")>>)
            [] Top.pc = "decl_base" ->
                 IF TOK = ";" THEN Step(lexer_next(ps_pos), <<>>)
                 ELSE Step(ps_pos, <<Frame("decl_iter")>>)
            [] Top.pc = "decl_iter" ->
                 Step(ps_pos, <<Iter("decl_name", ps_pos), Frame("declarator")>>)
            [] Top.pc = "decl_name" ->
                 IF ~ps_ret.name
                 THEN Error(Step(ps_pos, <<Expect(";")>>))
                 ELSE IF ps_ret.func /\ TOK = "{"
                 THEN Step(lexer_next(ps_pos), <<Expect("}"), Frame("compound")>>)
                 ELSE IF ~ps_ret.func /\ TOK = "="
                 THEN Step(lexer_next(ps_pos),
                           <<Iter("decl_comma", Top.at), Frame("initializer")>>)
                 ELSE Step(ps_pos, <<Iter("decl_comma", Top.at)>>)
            [] Top.pc = "decl_comma" ->
                 IF TOK = ","
                 THEN Step(lexer_next(ps_pos), <<Iter("decl_iter", Top.at)>>)
                 ELSE Step(ps_pos, <<Expect(";")>>))

\* parse_type_specifier: for (;;) over the specifiers; a struct or enum
\* specifier with its optional tag and its optional body
Parse_TypeSpecifier ==
    /\ Running({"spec"})
    /\ LET p1 == lexer_next(ps_pos)
           p2 == IF TokAt(p1) = "id" THEN lexer_next(p1) ELSE p1
           body == IF TOK = "struct" THEN "members" ELSE "enumerators"
       IN Do(CASE TOK = "int" ->
                    Step(p1, <<Iter("spec", ps_pos)>>)
               [] TOK \in {"struct", "enum"} ->
                    IF TokAt(p2) = "{"
                    THEN Step(lexer_next(p2),
                              <<Iter("spec", ps_pos), Expect("}"), Frame(body)>>)
                    ELSE IF p2 = p1
                    THEN Error(Step(p2, <<Iter("spec", ps_pos)>>))
                    ELSE Step(p2, <<Iter("spec", ps_pos)>>)
               [] OTHER -> Leave)

\* the member loop of a struct specifier: while not '}' or TK_EOF, the
\* specifiers, then declarators separated by commas, then ';'
Parse_StructMembers ==
    /\ Running({"members", "member_iter", "member_comma"})
    /\ Do(CASE Top.pc = "members" ->
                 IF TOK \in {"}", "EOF"} THEN Leave
                 ELSE Step(ps_pos, <<Iter("members", ps_pos), Expect(";"),
                                     Frame("member_iter"), Frame("spec")>>)
            [] Top.pc = "member_iter" ->
                 IF TOK = ";"
                 THEN Step(ps_pos, <<Iter("member_comma", ps_pos)>>)
                 ELSE Step(ps_pos, <<Iter("member_comma", ps_pos),
                                     Frame("declarator")>>)
            [] Top.pc = "member_comma" ->
                 IF TOK = ","
                 THEN Step(lexer_next(ps_pos), <<Iter("member_iter", Top.at)>>)
                 ELSE Leave)

\* the enumerator loop of an enum specifier: while not '}' or TK_EOF, a
\* name, an optional '=' value, and a ',' or the end of the loop
Parse_Enumerators ==
    /\ Running({"enumerators", "enum_comma"})
    /\ Do(CASE Top.pc = "enumerators" ->
                 IF TOK \in {"}", "EOF"} THEN Leave
                 ELSE IF TOK # "id" THEN Error(Leave)
                 ELSE IF PEEK = "="
                 THEN Step(lexer_next(lexer_next(ps_pos)),
                           <<Iter("enum_comma", ps_pos), Frame("cond")>>)
                 ELSE Step(lexer_next(ps_pos), <<Iter("enum_comma", ps_pos)>>)
            [] Top.pc = "enum_comma" ->
                 IF TOK = ","
                 THEN Step(lexer_next(ps_pos), <<Iter("enumerators", Top.at)>>)
                 ELSE Leave)

\* parse_declarator: a grouped or a direct declarator, then for (;;) over
\* the function suffixes with their parameter lists
Parse_Declarator ==
    /\ Running({"declarator", "grouped", "suffix", "param_iter", "param_base",
                "param_comma"})
    /\ Do(CASE Top.pc = "declarator" ->
                 IF TOK = "(" /\ PEEK \in {"id", "("}
                 THEN Step(lexer_next(ps_pos),
                           <<Frame("grouped"), Expect(")"),
                             [Frame("declarator") EXCEPT !.abs = Top.abs]>>)
                 ELSE IF ~Top.abs /\ TOK = "id"
                 THEN Step(lexer_next(ps_pos),
                           <<[Frame("suffix") EXCEPT !.name = TRUE]>>)
                 ELSE Step(ps_pos, <<Frame("suffix")>>)
            [] Top.pc = "grouped" ->
                 Step(ps_pos, <<[Frame("suffix") EXCEPT !.name = ps_ret.name,
                                                        !.func = ps_ret.func]>>)
            [] Top.pc = "suffix" ->
                 IF TOK = "(" /\ PEEK = ")"
                 THEN Step(lexer_next(lexer_next(ps_pos)),
                           <<[Top EXCEPT !.at = ps_pos, !.func = TRUE]>>)
                 ELSE IF TOK = "("
                 THEN Step(lexer_next(ps_pos),
                           <<[Top EXCEPT !.at = ps_pos, !.func = TRUE],
                             Expect(")"), Frame("param_iter")>>)
                 ELSE [Leave EXCEPT !.ret = [name |-> Top.name, func |-> Top.func,
                                              cast |-> ps_ret.cast]]
            [] Top.pc = "param_iter" ->
                 Step(ps_pos, <<Iter("param_base", ps_pos), Frame("spec")>>)
            [] Top.pc = "param_base" ->
                 IF TOK \in {",", ")"}
                 THEN Step(ps_pos, <<Iter("param_comma", Top.at)>>)
                 ELSE Step(ps_pos, <<Iter("param_comma", Top.at),
                                     Frame("declarator")>>)
            [] Top.pc = "param_comma" ->
                 IF TOK = ","
                 THEN Step(lexer_next(ps_pos), <<Iter("param_iter", Top.at)>>)
                 ELSE Leave)

\* parse_compound_stmt: while not '}' or TK_EOF, one statement
Parse_CompoundStmt ==
    /\ Running({"compound"})
    /\ Do(IF TOK \in {"}", "EOF"} THEN Leave
          ELSE Step(ps_pos, <<Iter("compound", ps_pos), Frame("stmt")>>))

\* parse_stmt: a block, a null statement, a declaration or an expression
\* statement
Parse_Stmt ==
    /\ Running({"stmt"})
    /\ Do(CASE TOK = "{" ->
                 Step(lexer_next(ps_pos), <<Expect("}"), Frame("compound")>>)
            [] TOK = ";" -> Step(lexer_next(ps_pos), <<>>)
            [] is_type_name(TOK) -> Step(ps_pos, <<Frame("decl")>>)
            [] OTHER -> Step(ps_pos, <<Expect(";"), Frame("expr")>>))

\* parse_expr and parse_assign_expr: operands separated by ',' and by '=';
\* an operator makes a node that is no ND_CAST
Parse_Expr ==
    /\ Running({"expr", "expr_comma", "assign", "assign_op", "node"})
    /\ Do(CASE Top.pc = "expr" ->
                 Step(ps_pos, <<Frame("expr_comma"), Frame("assign")>>)
            [] Top.pc = "expr_comma" ->
                 IF TOK = ","
                 THEN Step(lexer_next(ps_pos),
                           <<Iter("expr_comma", ps_pos), Frame("node"),
                             Frame("assign")>>)
                 ELSE Leave
            [] Top.pc = "assign" ->
                 Step(ps_pos, <<Frame("assign_op"), Frame("cond")>>)
            [] Top.pc = "assign_op" ->
                 IF TOK = "="
                 THEN Step(lexer_next(ps_pos), <<Frame("node"), Frame("assign")>>)
                 ELSE Leave
            [] Top.pc = "node" ->
                 [Leave EXCEPT !.ret.cast = FALSE])

\* parse_cond_expr down to parse_postfix_expr: none of the tokens is a
\* binary or unary operator; for (;;) over the calls with their arguments
Parse_PostfixExpr ==
    /\ Running({"cond", "postfix", "arg_iter", "arg_comma"})
    /\ Do(CASE Top.pc = "cond" ->
                 Step(ps_pos, <<Frame("postfix"), Frame("primary")>>)
            [] Top.pc = "postfix" ->
                 IF TOK = "(" /\ ~ps_ret.cast
                 THEN IF PEEK = ")"
                      THEN Step(lexer_next(ps_pos),
                                <<Iter("postfix", ps_pos), Frame("node"),
                                  Expect(")")>>)
                      ELSE Step(lexer_next(ps_pos),
                                <<Iter("postfix", ps_pos), Frame("node"),
                                  Expect(")"), Frame("arg_iter")>>)
                 ELSE Leave
            [] Top.pc = "arg_iter" ->
                 Step(ps_pos, <<Iter("arg_comma", ps_pos), Frame("assign")>>)
            [] Top.pc = "arg_comma" ->
                 IF TOK = ","
                 THEN Step(lexer_next(ps_pos), <<Iter("arg_iter", Top.at)>>)
                 ELSE Leave)

\* parse_primary_expr: an identifier, a literal, a cast or compound
\* literal, a parenthesized expression; anything else is reported and
\* skipped
Parse_PrimaryExpr ==
    /\ Running({"primary", "cast_body", "cast"})
    /\ Do(CASE Top.pc = "primary" ->
                 IF TOK \in {"id", "num"}
                 THEN [Step(lexer_next(ps_pos), <<>>) EXCEPT !.ret.cast = FALSE]
                 ELSE IF TOK = "(" /\ is_type_name(PEEK)
                 THEN Step(lexer_next(ps_pos),
                           <<Frame("cast_body"), Expect(")"),
                             [Frame("declarator") EXCEPT !.abs = TRUE],
                             Frame("spec")>>)
                 ELSE IF TOK = "("
                 THEN Step(lexer_next(ps_pos), <<Expect(")"), Frame("expr")>>)
                 ELSE [Error(Step(lexer_next(ps_pos), <<>>)) EXCEPT !.ret.cast = FALSE]
            [] Top.pc = "cast_body" ->
                 IF TOK = "{"
                 THEN Step(ps_pos, <<Frame("node"), Frame("initializer")>>)
                 ELSE Step(ps_pos, <<Frame("cast"), Frame("cond")>>)
            [] Top.pc = "cast" ->
                 [Leave EXCEPT !.ret.cast = TRUE])

\* parse_initializer: an expression, or a braced list: while not '}' or
\* TK_EOF, one initializer and a ',' or the end of the loop
Parse_Initializer ==
    /\ Running({"initializer", "init_list", "init_comma"})
    /\ Do(CASE Top.pc = "initializer" ->
                 IF TOK = "{"
                 THEN Step(lexer_next(ps_pos),
                           <<Frame("node"), Expect("}"), Frame("init_list")>>)
                 ELSE Step(ps_pos, <<Frame("assign")>>)
            [] Top.pc = "init_list" ->
                 IF TOK \in {"}", "EOF"} THEN Leave
                 ELSE Step(ps_pos, <<Iter("init_comma", ps_pos),
                                     Frame("initializer")>>)
            [] Top.pc = "init_comma" ->
                 IF TOK = ","
                 THEN Step(lexer_next(ps_pos), <<Iter("init_list", Top.at)>>)
                 ELSE Leave)

\* where an iteration of a loop of the parser begins, and whether one
\* begins there with the current token
LoopHeads ==
    {"program", "compound", "members", "enumerators", "init_list", "spec",
     "suffix", "postfix", "expr_comma", "decl_iter", "member_iter",
     "param_iter", "arg_iter"}
Continues ==
    CASE Top.pc \in {"program"} -> TOK # "EOF"
      [] Top.pc \in {"compound", "members", "enumerators", "init_list"} ->
           TOK \notin {"}", "EOF"}
      [] Top.pc = "spec" -> is_type_name(TOK)
      [] Top.pc = "suffix" -> TOK = "("
      [] Top.pc = "postfix" -> TOK = "(" /\ ~ps_ret.cast
      [] Top.pc = "expr_comma" -> TOK = ","
      [] OTHER -> TRUE

\* every iteration of a loop that begins after another one of the same
\* loop begins at a later token
LoopsConsume ==
    (Running(LoopHeads) /\ Top.at >= 0 /\ Continues) => ps_pos > Top.at
\* parser_parse has returned, at the end of the input
ParserReturned == ps_stack = <<>> /\ TOK = "EOF"
\* lexer_expect on a mismatch reports one error and moves to the next token
ExpectAdvances ==
    (Running({"expect"}) /\ TOK # Top.kind)
        => /\ error_count' = error_count + 1
           /\ ps_pos' = lexer_next(ps_pos)
           /\ TOK # "EOF" => ps_pos' = ps_pos + 1

\* C30: parser_parse returns on every token stream, at the end of the
\* input; every iteration of a parsing loop after the first begins at a
\* later token than the one before; and lexer_expect, after a mismatch,
\* reports one error and still advances
C30_ParserTerminates ==
    /\ <>ParserReturned
    /\ [](LoopsConsume /\ (ps_stack = <<>> => TOK = "EOF"))
    /\ [][ExpectAdvances]_vars

\* C30: a unit with a ')' in place of a ';' has been parsed to the end
\* of the input with errors reported
C30_Witness ==
    /\ ParserReturned
    /\ Len(ps_toks) = 17
    /\ ps_toks[16] = ")"
    /\ error_count > 0

(***************************************************************************)
(* Specifications.  Each one runs one component from its initial state and *)
(* leaves the other components as they are when they have nothing to do.   *)
(***************************************************************************)
PPIdle ==
    /\ pp_src = <<>>
    /\ pp_p = 1
    /\ pp_line = 1
    /\ pp_out = <<>>
    /\ if_depth = 0
    /\ skip_depth = 0
    /\ in_block_comment = FALSE
    /\ macro_table = <<>>
    /\ pp_done = TRUE

InitSym ==
    /\ PPIdle
    /\ error_count = 0
    /\ warn_count = 0
    /\ SymStart
    /\ LayIdle
    /\ CgIdle
    /\ RtIdle
    /\ MainIdle
    /\ PfIdle
    /\ SemaIdle
    /\ ArenaIdle
    /\ LexIdle
    /\ ScriptIdle
    /\ ParseIdle

NextSym ==
    \/ Sym_EnterScope
    \/ Sym_LeaveScope
    \/ \E name \in SymNames : Sym_DeclareTypedef(name)
    \/ \E name \in SymNames, sc \in {"SC_NONE", "SC_EXTERN"} :
            Sym_DeclareVar(name, sc)
    \/ \E name \in SymNames, sc \in {"SC_NONE", "SC_EXTERN"} :
            Sym_DeclareProto(name, sc)
    \/ \E name \in SymNames : Sym_FuncDef(name)
    \/ \E name \in SymNames : Sym_EnumConst(name)
    \/ \E name \in SymNames : Sym_Lookup(name)

SpecSym == InitSym /\ [][NextSym]_vars

InitLayout ==
    /\ PPIdle
    /\ error_count = 0
    /\ warn_count = 0
    /\ SymStart
    /\ lay_is_struct \in BOOLEAN
    /\ lay_head = <<>>
    /\ lay_offset = 0
    /\ lay_max_align = 1
    /\ lay_ty = (IF lay_is_struct THEN type_struct ELSE type_union)
                    @@ [complete |-> FALSE]
    /\ lay_stack = <<>>
    /\ CgIdle
    /\ RtIdle
    /\ MainIdle
    /\ PfIdle
    /\ SemaIdle
    /\ ArenaIdle
    /\ LexIdle
    /\ ScriptIdle
    /\ ParseIdle

NextLayout ==
    \/ \E f \in LayMemberForms : Lay_AddMember(f[1], f[2])
    \/ Lay_Finish

SpecLayout == InitLayout /\ [][NextLayout]_vars

InitCG ==
    /\ PPIdle
    /\ error_count = 0
    /\ warn_count = 0
    /\ SymStart
    /\ LayIdle
    /\ cg_prog \in CgPrograms
    /\ codegen = codegen_init(cg_prog)
    /\ cg_pc = "start"
    /\ cg_i = 1
    /\ cg_saved = <<>>
    /\ RtIdle
    /\ MainIdle
    /\ PfIdle
    /\ SemaIdle
    /\ ArenaIdle
    /\ LexIdle
    /\ ScriptIdle
    /\ ParseIdle

NextCG ==
    \/ CG_Header \/ CG_GlobalVar \/ CG_BeginFuncs \/ CG_Func
    \/ CG_EmitData \/ CG_FuncPtrs \/ CG_GlobalData \/ CG_Entry

SpecCG == InitCG /\ [][NextCG]_vars

InitPP ==
    /\ pp_src \in PPSources
    /\ pp_p = 1
    /\ pp_line = 1
    /\ pp_out = <<>>
    /\ if_depth = 0
    /\ skip_depth = 0
    /\ in_block_comment = FALSE
    /\ macro_table = <<>>
    /\ pp_done = FALSE
    /\ error_count = 0
    /\ warn_count = 0
    /\ SymStart
    /\ LayIdle
    /\ CgIdle
    /\ RtIdle
    /\ MainIdle
    /\ PfIdle
    /\ SemaIdle
    /\ ArenaIdle
    /\ LexIdle
    /\ ScriptIdle
    /\ ParseIdle

NextPP ==
    \/ PP_If \/ PP_Ifdef \/ PP_Ifndef \/ PP_Elif \/ PP_Else \/ PP_Endif
    \/ PP_SkippedDirective \/ PP_Define \/ PP_Undef \/ PP_OtherDirective
    \/ PP_SkipChar \/ PP_Newline \/ PP_Line \/ PP_Return

SpecPP == InitPP /\ [][NextPP]_vars

InitRun ==
    /\ PPIdle
    /\ error_count = 0
    /\ warn_count = 0
    /\ SymStart
    /\ LayIdle
    /\ cg_prog \in RtPrograms
    /\ codegen = codegen_init(cg_prog)
    /\ cg_pc = "start"
    /\ cg_i = 1
    /\ cg_saved = <<>>
    /\ RtIdle
    /\ MainIdle
    /\ PfIdle
    /\ SemaIdle
    /\ ArenaIdle
    /\ LexIdle
    /\ ScriptIdle
    /\ ParseIdle

NextRun ==
    \/ CG_Header \/ CG_GlobalVar \/ CG_BeginFuncs \/ CG_Func
    \/ CG_EmitData \/ CG_FuncPtrs \/ CG_GlobalData \/ CG_Entry
    \/ RT_Entry \/ RT_Enter \/ RT_StoreParam \/ RT_Frame \/ RT_Lit \/ RT_Addr
    \/ RT_RtCall \/ RT_Call \/ RT_Branch \/ RT_SetRet \/ RT_MemcpyRet
    \/ RT_Restore \/ RT_Return

SpecRun == InitRun /\ [][NextRun]_vars
InitMain ==
    /\ PPIdle
    /\ error_count = 0
    /\ warn_count = 0
    /\ SymStart
    /\ LayIdle
    /\ CgIdle
    /\ RtIdle
    /\ main_env \in MainEnvs
    /\ main_pc = "start"
    /\ main_status = 0
    /\ main_reported = {}
    /\ main_codegen_called = FALSE
    /\ main_written = FALSE
    /\ PfIdle
    /\ SemaIdle
    /\ ArenaIdle
    /\ LexIdle
    /\ ScriptIdle
    /\ ParseIdle

NextMain ==
    \/ Main_ReadFile \/ Main_Preprocess \/ Main_PreprocessOnly
    \/ Main_Parse \/ Main_Sema
    \/ Main_Codegen \/ Main_Write

SpecMain == InitMain /\ [][NextMain]_vars
InitType ==
    /\ PPIdle
    /\ error_count = 0
    /\ warn_count = 0
    /\ SymStart
    /\ LayIdle
    /\ CgIdle
    /\ RtIdle
    /\ MainIdle
    /\ pf_in \in (PredefArith \X PredefArith)
                  \cup {<<t>> : t \in PromoteTypes}
                  \cup {<<n>> : n \in UnaryNodes}
    /\ pf_out = <<>>
    /\ SemaIdle
    /\ ArenaIdle
    /\ LexIdle
    /\ ScriptIdle
    /\ ParseIdle

NextType == Type_UsualArith \/ Type_IntPromote \/ Sema_Unary

SpecType == InitType /\ [][NextType]_vars
InitSema ==
    /\ PPIdle
    /\ error_count = 0
    /\ warn_count = 0
    /\ SymStart
    /\ LayIdle
    /\ CgIdle
    /\ RtIdle
    /\ MainIdle
    /\ PfIdle
    /\ sema_stmt \in SemaStmts
    /\ sema_pc = "parsed"
    /\ ArenaIdle
    /\ LexIdle
    /\ ScriptIdle
    /\ ParseIdle

NextSema == Sema_ExprStmt \/ Sema_Return \/ Sema_VarDecl

SpecSema == InitSema /\ [][NextSema]_vars
InitCond ==
    /\ PPIdle
    /\ error_count = 0
    /\ warn_count = 0
    /\ SymStart
    /\ LayIdle
    /\ CgIdle
    /\ RtIdle
    /\ MainIdle
    /\ SemaIdle
    /\ pf_in \in {PPCondInput(e, <<>>) : e \in PPExprs}
                 \cup {PPCondInput(e, t) : e \in PPDefinedExprs,
                                           t \in PPCondTables}
    /\ pf_out = <<>>
    /\ ArenaIdle
    /\ LexIdle
    /\ ScriptIdle
    /\ ParseIdle

NextCond == PP_EvalIf

SpecCond == InitCond /\ [][NextCond]_vars
InitExpand ==
    /\ pp_src \in ExpandSources
    /\ pp_p = 1
    /\ pp_line = 1
    /\ pp_out = <<>>
    /\ if_depth = 0
    /\ skip_depth = 0
    /\ in_block_comment = FALSE
    /\ macro_table = <<>>
    /\ pp_done = FALSE
    /\ error_count = 0
    /\ warn_count = 0
    /\ SymStart
    /\ LayIdle
    /\ CgIdle
    /\ RtIdle
    /\ MainIdle
    /\ PfIdle
    /\ SemaIdle
    /\ ArenaIdle
    /\ LexIdle
    /\ ScriptIdle
    /\ ParseIdle

NextExpand == PP_Define \/ PP_Newline \/ PP_Line \/ PP_Return

SpecExpand == InitExpand /\ [][NextExpand]_vars
InitArena ==
    /\ PPIdle
    /\ error_count = 0
    /\ warn_count = 0
    /\ SymStart
    /\ LayIdle
    /\ CgIdle
    /\ RtIdle
    /\ MainIdle
    /\ PfIdle
    /\ SemaIdle
    /\ arena \in {arena_init(b) : b \in ArenaBlockSizes}
    /\ ar_regions = <<>>
    /\ LexIdle
    /\ ScriptIdle
    /\ ParseIdle

NextArena ==
    \/ \E size \in ArenaSizes : Arena_Alloc(size)
    \/ \E size \in ArenaSizes : Arena_Calloc(size)
    \/ Arena_Free

SpecArena == InitArena /\ [][NextArena]_vars
InitLex ==
    /\ PPIdle
    /\ error_count = 0
    /\ warn_count = 0
    /\ SymStart
    /\ LayIdle
    /\ CgIdle
    /\ RtIdle
    /\ MainIdle
    /\ PfIdle
    /\ SemaIdle
    /\ ArenaIdle
    /\ lx_src \in {PPMarked("a.c", lines, h) :
                       lines \in LexTopFiles, h \in LexHeaders}
    /\ lx_p = 1
    /\ lx_line = 1
    /\ lx_filename = "a.c"
    /\ lx_at_bol = TRUE
    /\ lx_toks = <<>>
    /\ ScriptIdle
    /\ ParseIdle

NextLex == Lex_Newline \/ Lex_LineMarker \/ Lex_Token

SpecLex == InitLex /\ [][NextLex]_vars
InitAnon == InitLayout

NextAnon ==
    \/ \E t \in {ty_char, ty_int} : Lay_Field(t)
    \/ \E is_struct \in BOOLEAN : LayFieldTotal < MaxFields /\ Lay_EnterAnon(is_struct)
    \/ Lay_FinishAnon
    \/ Lay_Finish

SpecAnon == InitAnon /\ [][NextAnon]_vars

InitScope ==
    /\ PPIdle
    /\ error_count = 0
    /\ warn_count = 0
    /\ SymStart
    /\ LayIdle
    /\ cg_prog \in ScopePrograms
    /\ codegen = codegen_init(cg_prog)
    /\ cg_pc = "start"
    /\ cg_i = 1
    /\ cg_saved = <<>>
    /\ RtIdle
    /\ MainIdle
    /\ PfIdle
    /\ SemaIdle
    /\ ArenaIdle
    /\ LexIdle
    /\ ScriptIdle
    /\ ParseIdle

NextScope ==
    \/ CG_Header \/ CG_GlobalVar \/ CG_BeginFuncs \/ CG_Func
    \/ CG_EmitData \/ CG_FuncPtrs \/ CG_GlobalData \/ CG_Entry

SpecScope == InitScope /\ [][NextScope]_vars

InitEnum ==
    /\ PPIdle
    /\ error_count = 0
    /\ warn_count = 0
    /\ SymStart
    /\ LayIdle
    /\ CgIdle
    /\ RtIdle
    /\ MainIdle
    /\ pf_in \in EnumDefs
    /\ pf_out = [val |-> 0, consts |-> <<>>]
    /\ SemaIdle
    /\ ArenaIdle
    /\ LexIdle
    /\ ScriptIdle
    /\ ParseIdle

NextEnum == Parse_Enumerator

SpecEnum == InitEnum /\ [][NextEnum]_vars

InitStatic ==
    /\ PPIdle
    /\ error_count = 0
    /\ warn_count = 0
    /\ SymStart
    /\ LayIdle
    /\ cg_prog \in StaticPrograms
    /\ codegen = codegen_init(cg_prog)
    /\ cg_pc = "start"
    /\ cg_i = 1
    /\ cg_saved = <<>>
    /\ RtIdle
    /\ MainIdle
    /\ PfIdle
    /\ SemaIdle
    /\ ArenaIdle
    /\ LexIdle
    /\ ScriptIdle
    /\ ParseIdle

NextStatic ==
    \/ CG_Header \/ CG_GlobalVar \/ CG_BeginFuncs \/ CG_Func
    \/ CG_EmitData \/ CG_FuncPtrs \/ CG_GlobalData \/ CG_Entry
    \/ RT_TopLevel \/ RT_Start
    \/ RT_Enter \/ RT_Frame \/ RT_Lit \/ RT_Load \/ RT_Store \/ RT_Call
    \/ RT_SetRet \/ RT_Restore \/ RT_Return

SpecStatic == InitStatic /\ [][NextStatic]_vars

InitParse ==
    /\ PPIdle
    /\ error_count = 0
    /\ warn_count = 0
    /\ SymStart
    /\ LayIdle
    /\ CgIdle
    /\ RtIdle
    /\ MainIdle
    /\ PfIdle
    /\ SemaIdle
    /\ ArenaIdle
    /\ LexIdle
    /\ ScriptIdle
    /\ ps_toks \in ParseStreams
    /\ ps_pos = 1
    /\ ps_stack = <<Frame("program")>>
    /\ ps_ret = [name |-> FALSE, func |-> FALSE, cast |-> FALSE]

NextParse ==
    \/ Parser_Parse \/ Parse_Declaration \/ Parse_TypeSpecifier
    \/ Parse_StructMembers \/ Parse_Enumerators \/ Parse_Declarator
    \/ Parse_CompoundStmt \/ Parse_Stmt \/ Parse_Expr \/ Parse_PostfixExpr
    \/ Parse_PrimaryExpr \/ Parse_Initializer \/ Lexer_Expect

\* the parser is one sequential call: a step that can be taken is taken
SpecParse == InitParse /\ [][NextParse]_vars /\ WF_vars(NextParse)

====
